---- MODULE Spec2Model ----
(***************************************************************************)
(* airfrog-rpc: the single-slot producer/consumer channel over a shared    *)
(* medium (src/src/channel).  The medium is a byte-addressed memory; a     *)
(* step of the model is one medium access of one execution context.        *)
(*                                                                         *)
(* A u32 is held in TLC's 32-bit integers as its two's complement value:     *)
(* the u32 value v is the integer v when v < 2^31 and v - 2^32 otherwise   *)
(* (0xFFFFFFFF is -1).  \div and % are floor division and modulus, so the  *)
(* byte lanes of a word are computed the same way for both halves.         *)
(***************************************************************************)
EXTENDS Integers, Sequences, FiniteSets, TLC

VARIABLES
    mem,        \* the medium: byte address -> byte
    actor,      \* handle field `actor` of each context's channel handle
    variant,    \* the type of the context's handle: Channel or AsyncChannel
    base_addr,  \* handle field `base_addr`
    live,       \* whether the context holds a channel handle
    pc,         \* position of the context inside the operation it runs
    op,         \* the operation in progress and its arguments
    reg,        \* the operation's local variables
    buf,        \* the caller's destination buffer (consume)
    ret,        \* the operation's result
    log,        \* the medium accesses the operation has performed
    pre,        \* the channel_size and sequence words when the operation was called
    inflight,   \* the publish that last made the channel busy, and its payload bytes
    hist,       \* publishes and consumes that returned Ok, medium failures, created size,
                \* consumes refused for their buffer or the payload size
    client      \* the RPC client: its config, the request in progress, its result

vars == <<mem, actor, variant, base_addr, live, pc, op, reg, buf, ret, log, pre, inflight, hist, client>>

-----------------------------------------------------------------------------
(* Bounds of the model *)

BaseWords == 2
CapWords == 2
MaxPublishes == 2
MaxIoFails == 1

Ctx == {"a", "b"}

-----------------------------------------------------------------------------
(* Control block layout: src/src/channel/mod.rs *)

channel_size_offset == 0
producer_seq_offset == 4
consumer_seq_offset == 8
flags_offset == 12
data_size_offset == 16
data_offset == 20

ChannelFlags_Ok == 0
ChannelFlags_Busy == 1

min_channel_size == data_offset + 4

\* the alignment check is missing
check_base_addr_skipped(addr) == "Ok"

check_base_addr(addr) == IF addr % 4 # 0 THEN "NotAligned" ELSE "Ok"

\* size < min_channel_size() on usize; a word with the top bit set is above the minimum
\* the minimum is taken to be the header alone, without one word of payload
check_channel_size_header(size) ==
    IF size >= 0 /\ size < data_offset THEN "BufferTooSmall" ELSE "Ok"

check_channel_size(size) == IF size >= 0 /\ size < min_channel_size THEN "BufferTooSmall" ELSE "Ok"

consumer_only(a) == IF a # "Consumer" THEN "InvalidOperation" ELSE "Ok"

\* the role check is missing
producer_only_any(a) == "Ok"

producer_only(a) == IF a # "Producer" THEN "InvalidOperation" ELSE "Ok"

-----------------------------------------------------------------------------
(* 32-bit words and their little-endian byte lanes *)

\* a > b on unsigned values (u32, and usize values that came from a u32)
usize_gt(a, b) == IF (a < 0) = (b < 0) THEN a > b ELSE a < 0

\* the bytes are taken most significant first
from_be_bytes(b) ==
    b[4] + 256 * b[3] + 65536 * b[2]
         + 16777216 * (IF b[1] >= 128 THEN b[1] - 256 ELSE b[1])

from_le_bytes(b) ==
    b[1] + 256 * b[2] + 65536 * b[3]
         + 16777216 * (IF b[4] >= 128 THEN b[4] - 256 ELSE b[4])

to_le_bytes(w) ==
    << w % 256, (w \div 256) % 256, (w \div 65536) % 256, (w \div 16777216) % 256 >>

\* the increment is lost
wrapping_add_lost(w, n) == w

wrapping_add(w, n) == IF w > 2147483647 - n THEN (w - 2147483647) + n - 2147483647 - 2 ELSE w + n

\* the byte count is rounded down to words
div_floor4(n) == n \div 4

\* usize::div_ceil(4) of a byte count
div_ceil4(n) == (n + 3) \div 4

-----------------------------------------------------------------------------
(* The medium *)

ChannelBase == 4 * BaseWords
ChannelSize == data_offset + 4 * CapWords
Capacity == ChannelSize - data_offset
MemBytes == ChannelBase + 2 * (ChannelSize + 4)
Addr == 0 .. MemBytes - 1
Byte == 0 .. 255

\* AsyncChannelIo/ChannelIo::read_u32: one indivisible 4-byte little-endian read
read_u32(m, addr) == from_le_bytes(<< m[addr], m[addr + 1], m[addr + 2], m[addr + 3] >>)

\* AsyncChannelIo/ChannelIo::write_u32: one indivisible 4-byte little-endian write
write_u32(m, addr, value) ==
    [a \in DOMAIN m |->
        IF a >= addr /\ a < addr + 4 THEN to_le_bytes(value)[a - addr + 1] ELSE m[a]]

data_start_addr(base) == base + data_offset

\* the header is not subtracted
data_capacity_whole(channel_size) == channel_size

data_capacity(channel_size) == channel_size - data_offset

\* busy is taken to be producer_seq ahead of consumer_seq in magnitude
idle_by_magnitude(producer_seq, consumer_seq) == ~usize_gt(producer_seq, consumer_seq)

\* the comparison is inverted
idle_inverted(producer_seq, consumer_seq) == producer_seq # consumer_seq

idle(producer_seq, consumer_seq) == producer_seq = consumer_seq

\* the availability check is skipped
check_idle_skipped(is_idle) == "Ok"

check_idle(is_idle) == IF is_idle THEN "Ok" ELSE "Busy"

\* the no-data check is skipped
check_busy_skipped(is_idle) == "Ok"

check_busy(is_idle) == IF ~is_idle THEN "Ok" ELSE "NoData"

-----------------------------------------------------------------------------
(* Records *)

NoOp == [name |-> "none", data |-> << >>, len |-> 0]
NoReg == [size |-> 0, p |-> 0, c |-> 0, ds |-> 0, idx |-> 0]
NoRet == [tag |-> "None", err |-> "", val |-> 0, flag |-> FALSE]
NoPre == [size |-> 0, p |-> 0, c |-> 0]

\* no RPC client has been constructed
NoClient == [config |-> "none", command |-> << >>, size |-> 0, calls |-> << >>, result |-> NoRet]

Ok(v, f) == [tag |-> "Ok", err |-> "", val |-> v, flag |-> f]
\* the operation did not return: the thread panicked
Abort == [tag |-> "Abort", err |-> "", val |-> 0, flag |-> FALSE]

Err(e) == [tag |-> "Err", err |-> e, val |-> 0, flag |-> FALSE]

Header(m, base) ==
    [size |-> read_u32(m, base + channel_size_offset),
     p |-> read_u32(m, base + producer_seq_offset),
     c |-> read_u32(m, base + consumer_seq_offset)]

-----------------------------------------------------------------------------
(* Inputs *)

\* the payload of n bytes: every byte names its payload and its place
BytePayload(n) == [i \in 1 .. n |-> (16 * n + i) % 256]

Pack(bytes) == [j \in 1 .. Len(bytes) \div 4 |-> from_le_bytes(SubSeq(bytes, 4 * j - 3, 4 * j))]

Unpack(words) == [i \in 1 .. 4 * Len(words) |-> to_le_bytes(words[(i + 3) \div 4])[((i - 1) % 4) + 1]]

\* what the callers offer: every byte length up to one past the capacity, word
\* payloads up to one word past it, buffers that are empty, partial and ample.
\* The role check precedes any use of the argument, so a handle of the other
\* role is offered a small and an oversize argument only.
BytePayloads(a) == {BytePayload(n) : n \in IF a = "Producer" THEN 0 .. Capacity + 1 ELSE {1, Capacity + 1}}
WordPayloads(a) == {Pack(BytePayload(4 * k)) : k \in IF a = "Producer" THEN 1 .. CapWords + 1 ELSE {1, CapWords + 1}}
ByteBufLens(a) == IF a = "Consumer" THEN {0, Capacity \div 2 + 1, Capacity + 1} ELSE {0, Capacity}
WordBufLens(a) == IF a = "Consumer" THEN {0, 1, CapWords + 1} ELSE {0, CapWords}

\* a caller's buffer before the call: a fill no payload contains
FreshBytes(n) == [i \in 1 .. n |-> 255]
FreshWords(n) == [i \in 1 .. n |-> -1]

-----------------------------------------------------------------------------
(* Order of the medium accesses of each operation *)

\* producer_seq is incremented before the payload and its size are written
publish_order_seq_first == << "cap", "idle_p", "idle_c", "inc_r", "inc_w", "payload_w", "w_size", "w_flags" >>

\* the idle check comes before the capacity check
publish_order_idle_first == << "idle_p", "idle_c", "cap", "payload_w", "w_size", "w_flags", "inc_r", "inc_w" >>

publish_order == << "cap", "idle_p", "idle_c", "payload_w", "w_size", "w_flags", "inc_r", "inc_w" >>

\* the consume releases the channel before it validates data_size
consume_order_release_first == << "idle_p", "idle_c", "set_r", "set_w", "r_size", "cap", "payload_r" >>

\* consumer_seq is set to the producer_seq read by the busy check
consume_order_stale_seq == << "idle_p", "idle_c", "r_size", "cap", "payload_r", "set_w" >>

\* consumer_seq is never written
consume_order_no_release == << "idle_p", "idle_c", "r_size", "cap", "payload_r" >>

consume_order == << "idle_p", "idle_c", "r_size", "cap", "payload_r", "set_r", "set_w" >>

\* data_available acknowledges the payload it reports
Order_probe_acks(name) ==
    CASE name \in {"publish_data", "publish_bytes"} -> publish_order
      [] name \in {"consume_bytes", "consume_data"} -> consume_order
      [] name = "can_publish" -> << "idle_p", "idle_c" >>
      [] name = "data_available" -> << "idle_p", "idle_c", "set_r", "set_w" >>
      [] name = "data_capacity" -> << "cap" >>
      [] name = "new" -> << "new_w" >>
      [] name = "from_target" -> << "attach_r" >>

\* from_target acknowledges the payload it finds
Order_attach_acks(name) ==
    CASE name \in {"publish_data", "publish_bytes"} -> publish_order
      [] name \in {"consume_bytes", "consume_data"} -> consume_order
      [] name = "can_publish" -> << "idle_p", "idle_c" >>
      [] name = "data_available" -> << "idle_p", "idle_c", "r_size" >>
      [] name = "data_capacity" -> << "cap" >>
      [] name = "new" -> << "new_w" >>
      [] name = "from_target" -> << "attach_r", "set_r", "set_w" >>

Order(name) ==
    CASE name \in {"publish_data", "publish_bytes"} -> publish_order
      [] name \in {"consume_bytes", "consume_data"} -> consume_order
      [] name = "can_publish" -> << "idle_p", "idle_c" >>
      [] name = "data_available" -> << "idle_p", "idle_c", "r_size" >>
      [] name = "data_capacity" -> << "cap" >>
      [] name = "new" -> << "new_w" >>
      [] name = "from_target" -> << "attach_r" >>

\* AsyncChannel publishes the flags before the payload size
async_publish_order_flags_first == << "cap", "idle_p", "idle_c", "payload_w", "w_flags", "w_size", "inc_r", "inc_w" >>

\* AsyncChannel::publish_data / publish_bytes
async_publish_order == << "cap", "idle_p", "idle_c", "payload_w", "w_size", "w_flags", "inc_r", "inc_w" >>

\* AsyncChannel::consume_bytes / consume_data
async_consume_order == << "idle_p", "idle_c", "r_size", "cap", "payload_r", "set_r", "set_w" >>

AsyncOrder(name) ==
    CASE name \in {"publish_data", "publish_bytes"} -> async_publish_order
      [] name \in {"consume_bytes", "consume_data"} -> async_consume_order
      [] name = "can_publish" -> << "idle_p", "idle_c" >>
      [] name = "data_available" -> << "idle_p", "idle_c", "r_size" >>
      [] name = "data_capacity" -> << "cap" >>
      [] name = "new" -> << "new_w" >>
      [] name = "from_target" -> << "attach_r" >>

\* the order the context's handle follows
HandleOrder(c, name) == IF variant[c] = "AsyncChannel" THEN AsyncOrder(name) ELSE Order(name)

\* payload byte length of a publish
ByteLen(o) == IF o.name = "publish_data" THEN Len(o.data) * 4 ELSE Len(o.data)

\* number of payload words the operation transfers
NWords(o, r) ==
    CASE o.name = "publish_data" -> Len(o.data)
      [] o.name = "publish_bytes" -> div_ceil4(Len(o.data))
      [] OTHER -> div_ceil4(r.ds)

Place(seq, l) == CHOOSE i \in 1 .. Len(seq) : seq[i] = l

\* the access that follows the one at label l (a payload transfer of no words is no access)
RECURSIVE After(_, _, _, _)
After(c, o, l, r) ==
    LET ord == HandleOrder(c, o.name)
        i == Place(ord, l)
    IN IF i = Len(ord) THEN "end"
       ELSE IF ord[i + 1] \in {"payload_w", "payload_r"} /\ NWords(o, r) = 0
            THEN After(c, o, ord[i + 1], r)
            ELSE ord[i + 1]

First(c, o) == HandleOrder(c, o.name)[1]

-----------------------------------------------------------------------------
(* Steps *)

Access(c, kind, addr, value) == log' = [log EXCEPT ![c] = Append(@, << kind, addr, value >>)]

Goto(c, l) == pc' = [pc EXCEPT ![c] = l] /\ ret' = ret /\ hist' = hist

\* the operation ends with an error
Finish(c, r) == pc' = [pc EXCEPT ![c] = "done"] /\ ret' = [ret EXCEPT ![c] = r] /\ hist' = hist

\* the value a completed operation returns
Result(o, r) ==
    CASE o.name = "consume_bytes" -> Ok(r.ds, FALSE)
      [] o.name = "consume_data" -> Ok(div_ceil4(r.ds), FALSE)
      [] OTHER -> Ok(0, FALSE)

\* on to the next access, or the operation ends with Ok
Advance(c, r) ==
    LET l == After(c, op[c], pc[c], r)
    IN IF l # "end" THEN Goto(c, l)
       ELSE /\ pc' = [pc EXCEPT ![c] = "done"]
            /\ ret' = [ret EXCEPT ![c] = Result(op[c], r)]
            /\ hist' = CASE op[c].name \in {"publish_data", "publish_bytes"} ->
                                [hist EXCEPT !.pubs = @ + 1]
                          [] op[c].name \in {"consume_bytes", "consume_data"} ->
                                [hist EXCEPT !.cons = @ + 1]
                          [] op[c].name = "new" -> [hist EXCEPT !.created = op[c].len]
                          [] OTHER -> hist

\* a method is called on the context's handle
Call(c, o, b, check) ==
    /\ pc[c] = "rest"
    /\ live[c]
    /\ op' = [op EXCEPT ![c] = o]
    /\ buf' = [buf EXCEPT ![c] = b]
    /\ pre' = [pre EXCEPT ![c] = Header(mem, base_addr[c])]
    /\ IF check # "Ok" THEN Finish(c, Err(check)) ELSE Goto(c, First(c, o))
    /\ UNCHANGED << mem, actor, variant, client, base_addr, live, reg, log, inflight >>

PublishDataCall(c, data) ==
    /\ hist.pubs < MaxPublishes
    /\ Call(c, [name |-> "publish_data", data |-> data, len |-> 0], << >>, producer_only(actor[c]))

PublishBytesCall(c, data) ==
    /\ hist.pubs < MaxPublishes
    /\ Call(c, [name |-> "publish_bytes", data |-> data, len |-> 0], << >>, producer_only(actor[c]))

CanPublishCall(c) == Call(c, [name |-> "can_publish", data |-> << >>, len |-> 0], << >>, "Ok")

ConsumeBytesCall(c, n) ==
    Call(c, [name |-> "consume_bytes", data |-> << >>, len |-> n], FreshBytes(n), consumer_only(actor[c]))

ConsumeDataCall(c, n) ==
    Call(c, [name |-> "consume_data", data |-> << >>, len |-> n], FreshWords(n), consumer_only(actor[c]))

DataAvailableCall(c) == Call(c, [name |-> "data_available", data |-> << >>, len |-> 0], << >>, "Ok")

DataCapacityCall(c) == Call(c, [name |-> "data_capacity", data |-> << >>, len |-> 0], << >>, "Ok")

\* the outcomes of the usize subtraction channel_size - data_offset: it panics
\* in a build with overflow checks and wraps in one without
sub_overflows(channel_size) ==
    IF usize_gt(data_offset, channel_size) THEN {TRUE, FALSE} ELSE {FALSE}

\* data_capacity(): read channel_size, subtract the header
DataCapacityStep(c) ==
    /\ pc[c] = "cap"
    /\ LET a == base_addr[c] + channel_size_offset
           size == read_u32(mem, a)
           cap == data_capacity(size)
           r == [reg[c] EXCEPT !.size = size]
       IN /\ Access(c, "r", a, size)
          /\ reg' = [reg EXCEPT ![c] = r]
          /\ \E panic \in sub_overflows(size) :
                IF panic THEN Finish(c, Abort)
                ELSE CASE op[c].name \in {"publish_data", "publish_bytes"} ->
                            IF usize_gt(ByteLen(op[c]), cap)
                            THEN Finish(c, Err("PayloadTooLarge")) ELSE Advance(c, r)
                       [] op[c].name \in {"consume_bytes", "consume_data"} ->
                            IF usize_gt(r.ds, cap)
                            THEN Finish(c, Err("PayloadTooLarge")) ELSE Advance(c, r)
                       [] OTHER -> Finish(c, Ok(cap, FALSE))
    /\ UNCHANGED << mem, actor, variant, client, base_addr, live, op, buf, pre, inflight >>

\* the operation reads the sequence words again until the channel state suits it
check_failed_waits(c, e) == Goto(c, "idle_p")

\* check_idle()? / check_busy()?: the error is returned at once
check_failed(c, e) == Finish(c, Err(e))

\* idle(): read producer_seq
IdleReadProducerSeq(c) ==
    /\ pc[c] = "idle_p"
    /\ LET a == base_addr[c] + producer_seq_offset
           v == read_u32(mem, a)
           r == [reg[c] EXCEPT !.p = v]
       IN /\ Access(c, "r", a, v)
          /\ reg' = [reg EXCEPT ![c] = r]
          /\ Advance(c, r)
    /\ UNCHANGED << mem, actor, variant, client, base_addr, live, op, buf, pre, inflight >>

\* idle(): read consumer_seq and compare; then check_idle, check_busy or the probe's result
IdleReadConsumerSeq(c) ==
    /\ pc[c] = "idle_c"
    /\ LET a == base_addr[c] + consumer_seq_offset
           v == read_u32(mem, a)
           r == [reg[c] EXCEPT !.c = v]
           is_idle == idle(r.p, r.c)
       IN /\ Access(c, "r", a, v)
          /\ reg' = [reg EXCEPT ![c] = r]
          /\ CASE op[c].name \in {"publish_data", "publish_bytes"} ->
                    IF check_idle(is_idle) # "Ok"
                    THEN check_failed(c, check_idle(is_idle)) ELSE Advance(c, r)
               [] op[c].name \in {"consume_bytes", "consume_data"} ->
                    IF check_busy(is_idle) # "Ok"
                    THEN check_failed(c, check_busy(is_idle)) ELSE Advance(c, r)
               [] op[c].name = "can_publish" -> Finish(c, Ok(0, is_idle))
               [] OTHER -> IF ~is_idle THEN Advance(c, r) ELSE Finish(c, Ok(0, FALSE))
    /\ UNCHANGED << mem, actor, variant, client, base_addr, live, op, buf, pre, inflight >>

\* the trailing bytes packed most significant first
RECURSIVE final_word_be(_, _, _)
final_word_be(data, base_offset, remaining) ==
    IF remaining = 0 THEN 0
    ELSE 256 * final_word_be(data, base_offset, remaining - 1) + data[base_offset + remaining]

\* the first unused lane of the final word is left set
final_word_stray(data, base_offset, remaining) ==
    (IF remaining >= 1 THEN data[base_offset + 1] ELSE 0)
        + (IF remaining >= 2 THEN 256 * data[base_offset + 2] ELSE 0)
        + (IF remaining >= 3 THEN 65536 * data[base_offset + 3] ELSE 0)
        + 256 ^ remaining

\* the trailing 1-3 bytes packed into the low lanes of a zero word
RECURSIVE final_word(_, _, _)
final_word(data, base_offset, remaining) ==
    IF remaining = 0 THEN 0
    ELSE final_word(data, base_offset, remaining - 1)
            + data[base_offset + remaining] * (256 ^ (remaining - 1))

\* publish_bytes: one word of the aligned portion
PublishBytesWord(c) ==
    /\ pc[c] = "payload_w"
    /\ op[c].name = "publish_bytes"
    /\ reg[c].idx < Len(op[c].data) \div 4
    /\ LET word_idx == reg[c].idx
           byte_offset == word_idx * 4
           word == from_le_bytes(SubSeq(op[c].data, byte_offset + 1, byte_offset + 4))
           a == data_start_addr(base_addr[c]) + word_idx * 4
           r == [reg[c] EXCEPT !.idx = word_idx + 1]
       IN /\ mem' = write_u32(mem, a, word)
          /\ Access(c, "w", a, word)
          /\ reg' = [reg EXCEPT ![c] = r]
          /\ IF r.idx < NWords(op[c], r) THEN Goto(c, pc[c]) ELSE Advance(c, r)
    /\ UNCHANGED << actor, variant, client, base_addr, live, op, buf, pre, inflight >>

\* publish_bytes: the remaining 1-3 bytes
PublishBytesFinalWord(c) ==
    /\ pc[c] = "payload_w"
    /\ op[c].name = "publish_bytes"
    /\ reg[c].idx = Len(op[c].data) \div 4
    /\ LET word_count == Len(op[c].data) \div 4
           remaining == Len(op[c].data) % 4
           base_offset == word_count * 4
           word == final_word(op[c].data, base_offset, remaining)
           a == data_start_addr(base_addr[c]) + base_offset
           r == [reg[c] EXCEPT !.idx = word_count + 1]
       IN /\ remaining > 0
          /\ mem' = write_u32(mem, a, word)
          /\ Access(c, "w", a, word)
          /\ reg' = [reg EXCEPT ![c] = r]
          /\ Advance(c, r)
    /\ UNCHANGED << actor, variant, client, base_addr, live, op, buf, pre, inflight >>

\* publish_data: write_bulk, one word at a time
WriteBulkWord(c) ==
    /\ pc[c] = "payload_w"
    /\ op[c].name = "publish_data"
    /\ reg[c].idx < Len(op[c].data)
    /\ LET i == reg[c].idx
           a == data_start_addr(base_addr[c]) + i * 4
           r == [reg[c] EXCEPT !.idx = i + 1]
       IN /\ mem' = write_u32(mem, a, op[c].data[i + 1])
          /\ Access(c, "w", a, op[c].data[i + 1])
          /\ reg' = [reg EXCEPT ![c] = r]
          /\ IF r.idx < NWords(op[c], r) THEN Goto(c, pc[c]) ELSE Advance(c, r)
    /\ UNCHANGED << actor, variant, client, base_addr, live, op, buf, pre, inflight >>

WriteDataSize(c) ==
    /\ pc[c] = "w_size"
    /\ LET a == base_addr[c] + data_size_offset
       IN /\ mem' = write_u32(mem, a, ByteLen(op[c]))
          /\ Access(c, "w", a, ByteLen(op[c]))
          /\ Advance(c, reg[c])
    /\ UNCHANGED << actor, variant, client, base_addr, live, op, reg, buf, pre, inflight >>

\* publish marks the channel Busy
publish_flags_busy == ChannelFlags_Busy

\* the flags a publish writes
publish_flags == ChannelFlags_Ok

WriteFlags(c) ==
    /\ pc[c] = "w_flags"
    /\ LET a == base_addr[c] + flags_offset
       IN /\ mem' = write_u32(mem, a, publish_flags)
          /\ Access(c, "w", a, publish_flags)
          /\ Advance(c, reg[c])
    /\ UNCHANGED << actor, variant, client, base_addr, live, op, reg, buf, pre, inflight >>

\* inc_producer_seq: the read
IncProducerSeqRead(c) ==
    /\ pc[c] = "inc_r"
    /\ LET a == base_addr[c] + producer_seq_offset
           v == read_u32(mem, a)
           r == [reg[c] EXCEPT !.p = v]
       IN /\ Access(c, "r", a, v)
          /\ reg' = [reg EXCEPT ![c] = r]
          /\ Advance(c, r)
    /\ UNCHANGED << mem, actor, variant, client, base_addr, live, op, buf, pre, inflight >>

\* inc_producer_seq: the write of the wrapped increment
IncProducerSeqWrite(c) ==
    /\ pc[c] = "inc_w"
    /\ LET a == base_addr[c] + producer_seq_offset
           v == wrapping_add(reg[c].p, 1)
       IN /\ mem' = write_u32(mem, a, v)
          /\ Access(c, "w", a, v)
          /\ Advance(c, reg[c])
    /\ inflight' = [name |-> op[c].name,
                    data |-> IF op[c].name = "publish_data" THEN Unpack(op[c].data) ELSE op[c].data]
    /\ UNCHANGED << actor, variant, client, base_addr, live, op, reg, buf, pre >>

\* consume and data_available: read data_size, then the destination buffer check
ReadDataSize(c) ==
    /\ pc[c] = "r_size"
    /\ LET a == base_addr[c] + data_size_offset
           v == read_u32(mem, a)
           r == [reg[c] EXCEPT !.ds = v]
       IN /\ Access(c, "r", a, v)
          /\ reg' = [reg EXCEPT ![c] = r]
          /\ CASE op[c].name = "consume_bytes" ->
                    IF usize_gt(v, op[c].len)
                    THEN Finish(c, Err("BufferTooSmall")) ELSE Advance(c, r)
               [] op[c].name = "consume_data" ->
                    IF v < 0 \/ usize_gt(div_ceil4(v), op[c].len)
                    THEN Finish(c, Err("BufferTooSmall")) ELSE Advance(c, r)
               [] OTHER -> Finish(c, Ok(v, TRUE))
    /\ UNCHANGED << mem, actor, variant, client, base_addr, live, op, buf, pre, inflight >>

\* consume_bytes: one word of the aligned portion, copied to the buffer as 4 bytes
ConsumeBytesWord(c) ==
    /\ pc[c] = "payload_r"
    /\ op[c].name = "consume_bytes"
    /\ reg[c].idx < reg[c].ds \div 4
    /\ LET word_idx == reg[c].idx
           a == data_start_addr(base_addr[c]) + word_idx * 4
           word == read_u32(mem, a)
           bytes == to_le_bytes(word)
           base_offset == word_idx * 4
           r == [reg[c] EXCEPT !.idx = word_idx + 1]
       IN /\ Access(c, "r", a, word)
          /\ buf' = [buf EXCEPT ![c] =
                        [i \in 1 .. Len(@) |->
                            IF i > base_offset /\ i <= base_offset + 4
                            THEN bytes[i - base_offset] ELSE @[i]]]
          /\ reg' = [reg EXCEPT ![c] = r]
          /\ IF r.idx < NWords(op[c], r) THEN Goto(c, pc[c]) ELSE Advance(c, r)
    /\ UNCHANGED << mem, actor, variant, client, base_addr, live, op, pre, inflight >>

\* consume_bytes: the remaining 1-3 bytes of one more word
ConsumeBytesFinalWord(c) ==
    /\ pc[c] = "payload_r"
    /\ op[c].name = "consume_bytes"
    /\ reg[c].idx = reg[c].ds \div 4
    /\ LET word_count == reg[c].ds \div 4
           remaining == reg[c].ds % 4
           a == data_start_addr(base_addr[c]) + word_count * 4
           word == read_u32(mem, a)
           bytes == to_le_bytes(word)
           base_offset == word_count * 4
           r == [reg[c] EXCEPT !.idx = word_count + 1]
       IN /\ remaining > 0
          /\ Access(c, "r", a, word)
          /\ buf' = [buf EXCEPT ![c] =
                        [i \in 1 .. Len(@) |->
                            IF i > base_offset /\ i <= base_offset + remaining
                            THEN bytes[i - base_offset] ELSE @[i]]]
          /\ reg' = [reg EXCEPT ![c] = r]
          /\ Advance(c, r)
    /\ UNCHANGED << mem, actor, variant, client, base_addr, live, op, pre, inflight >>

\* consume_data: read_bulk into buf[..word_size], one word at a time
ReadBulkWord(c) ==
    /\ pc[c] = "payload_r"
    /\ op[c].name = "consume_data"
    /\ reg[c].idx < div_ceil4(reg[c].ds)
    /\ LET i == reg[c].idx
           a == data_start_addr(base_addr[c]) + i * 4
           word == read_u32(mem, a)
           r == [reg[c] EXCEPT !.idx = i + 1]
       IN /\ Access(c, "r", a, word)
          /\ buf' = [buf EXCEPT ![c][i + 1] = word]
          /\ reg' = [reg EXCEPT ![c] = r]
          /\ IF r.idx < NWords(op[c], r) THEN Goto(c, pc[c]) ELSE Advance(c, r)
    /\ UNCHANGED << mem, actor, variant, client, base_addr, live, op, pre, inflight >>

\* set_consumer_seq_to_producer: the read
SetConsumerSeqRead(c) ==
    /\ pc[c] = "set_r"
    /\ LET a == base_addr[c] + producer_seq_offset
           v == read_u32(mem, a)
           r == [reg[c] EXCEPT !.p = v]
       IN /\ Access(c, "r", a, v)
          /\ reg' = [reg EXCEPT ![c] = r]
          /\ Advance(c, r)
    /\ UNCHANGED << mem, actor, variant, client, base_addr, live, op, buf, pre, inflight >>

\* set_consumer_seq_to_producer: the write
SetConsumerSeqWrite(c) ==
    /\ pc[c] = "set_w"
    /\ LET a == base_addr[c] + consumer_seq_offset
       IN /\ mem' = write_u32(mem, a, reg[c].p)
          /\ Access(c, "w", a, reg[c].p)
          /\ Advance(c, reg[c])
    /\ UNCHANGED << actor, variant, client, base_addr, live, op, reg, buf, pre, inflight >>

\* the failed access is tried again
on_io_error_retried(l) == l

\* `?` on the access: its error ends the operation
on_io_error(l) == "done"

\* the medium access the context is about to perform fails
IoFail(c) ==
    /\ pc[c] \notin {"rest", "done"}
    /\ hist.fails < MaxIoFails
    /\ pc' = [pc EXCEPT ![c] = on_io_error(pc[c])]
    /\ ret' = [ret EXCEPT ![c] = IF on_io_error(pc[c]) = "done" THEN Err("Io") ELSE @]
    /\ hist' = [hist EXCEPT !.fails = @ + 1]
    /\ UNCHANGED << mem, actor, variant, client, base_addr, live, op, reg, buf, log, pre, inflight >>

\* the operation returns to its caller
Return(c) ==
    /\ pc[c] = "done"
    /\ ret[c] # Abort
    /\ pc' = [pc EXCEPT ![c] = "rest"]
    /\ op' = [op EXCEPT ![c] = NoOp]
    /\ reg' = [reg EXCEPT ![c] = NoReg]
    /\ buf' = [buf EXCEPT ![c] = << >>]
    /\ ret' = [ret EXCEPT ![c] = NoRet]
    /\ log' = [log EXCEPT ![c] = << >>]
    /\ pre' = [pre EXCEPT ![c] = NoPre]
    /\ UNCHANGED << mem, actor, variant, client, base_addr, live, inflight, hist >>

-----------------------------------------------------------------------------
(* Construction of a handle *)

\* the real channel_size is written first instead of zero
new_writes_size_first(size) ==
    << << channel_size_offset, size >>,
       << producer_seq_offset, 0 >>,
       << consumer_seq_offset, 0 >>,
       << flags_offset, ChannelFlags_Ok >>,
       << data_size_offset, 0 >>,
       << channel_size_offset, size >> >>

\* the payload capacity is stored in place of the channel size
new_writes_capacity(size) ==
    << << channel_size_offset, 0 >>,
       << producer_seq_offset, 0 >>,
       << consumer_seq_offset, 0 >>,
       << flags_offset, ChannelFlags_Ok >>,
       << data_size_offset, 0 >>,
       << channel_size_offset, size - data_offset >> >>

\* the six header writes of new(), in order: << field offset, value >>
new_writes(size) ==
    << << channel_size_offset, 0 >>,
       << producer_seq_offset, 0 >>,
       << consumer_seq_offset, 0 >>,
       << flags_offset, ChannelFlags_Ok >>,
       << data_size_offset, 0 >>,
       << channel_size_offset, size >> >>

\* from_target's validation of the channel_size it read
from_target_check(channel_size) ==
    IF check_channel_size(channel_size) # "Ok" THEN check_channel_size(channel_size)
    ELSE IF usize_gt(channel_size, 0) THEN "Ok"
    ELSE "Uninit"

\* AsyncChannel::new: the six header writes, in order
async_new_writes(size) ==
    << << channel_size_offset, 0 >>,
       << producer_seq_offset, 0 >>,
       << consumer_seq_offset, 0 >>,
       << flags_offset, ChannelFlags_Ok >>,
       << data_size_offset, 0 >>,
       << channel_size_offset, size >> >>

\* AsyncChannel::from_target's validation of the channel_size it read
async_from_target_check(channel_size) ==
    IF check_channel_size(channel_size) # "Ok" THEN check_channel_size(channel_size)
    ELSE IF usize_gt(channel_size, 0) THEN "Ok"
    ELSE "Uninit"

HandleNewWrites(c, size) ==
    IF variant[c] = "AsyncChannel" THEN async_new_writes(size) ELSE new_writes(size)

HandleFromTargetCheck(c, channel_size) ==
    IF variant[c] = "AsyncChannel" THEN async_from_target_check(channel_size)
    ELSE from_target_check(channel_size)

Construct(c, o, base, check) ==
    /\ pc[c] = "rest"
    /\ ~live[c]
    /\ base_addr' = [base_addr EXCEPT ![c] = base]
    /\ op' = [op EXCEPT ![c] = o]
    /\ pre' = [pre EXCEPT ![c] = Header(mem, base)]
    /\ IF check # "Ok" THEN Finish(c, Err(check)) ELSE Goto(c, First(c, o))
    /\ UNCHANGED << mem, actor, variant, client, live, reg, buf, log, inflight >>

\* Channel::new is called; the region is formatted once, by one side
NewCall(c, base, size) ==
    /\ hist.created = 0
    /\ \A d \in Ctx : op[d].name # "new"
    /\ Construct(c, [name |-> "new", data |-> << >>, len |-> size], base,
                 IF check_base_addr(base) # "Ok" THEN check_base_addr(base)
                 ELSE check_channel_size(size))

NewWrite(c) ==
    /\ pc[c] = "new_w"
    /\ LET w == HandleNewWrites(c, op[c].len)[reg[c].idx + 1]
           a == base_addr[c] + w[1]
           r == [reg[c] EXCEPT !.idx = @ + 1]
           last == r.idx = Len(HandleNewWrites(c, op[c].len))
       IN /\ mem' = write_u32(mem, a, w[2])
          /\ Access(c, "w", a, w[2])
          /\ reg' = [reg EXCEPT ![c] = r]
          /\ IF last THEN Advance(c, r) ELSE Goto(c, pc[c])
          /\ live' = [live EXCEPT ![c] = last]
    /\ UNCHANGED << actor, variant, client, base_addr, op, buf, pre, inflight >>

\* Channel::from_target is called
FromTargetCall(c, base) ==
    Construct(c, [name |-> "from_target", data |-> << >>, len |-> 0], base, check_base_addr(base))

FromTargetRead(c) ==
    /\ pc[c] = "attach_r"
    /\ LET a == base_addr[c] + channel_size_offset
           channel_size == read_u32(mem, a)
           r == [reg[c] EXCEPT !.size = channel_size]
           check == HandleFromTargetCheck(c, channel_size)
       IN /\ Access(c, "r", a, channel_size)
          /\ reg' = [reg EXCEPT ![c] = r]
          /\ IF check # "Ok" THEN Finish(c, Err(check)) ELSE Advance(c, r)
          /\ live' = [live EXCEPT ![c] = (check = "Ok")]
    /\ UNCHANGED << mem, actor, variant, client, base_addr, op, buf, pre, inflight >>

\* the handle is dropped; the medium is not touched
Drop(c) ==
    /\ pc[c] = "rest"
    /\ live[c]
    /\ live' = [live EXCEPT ![c] = FALSE]
    /\ UNCHANGED << mem, actor, variant, client, base_addr, pc, op, reg, buf, ret, log, pre, inflight, hist >>

-----------------------------------------------------------------------------
(* Specifications *)

Zeroes == [a \in Addr |-> 0]

\* the control block words at base; the payload area and the rest are zero
Format(base, channel_size, producer_seq, consumer_seq, flags, data_size) ==
    write_u32(write_u32(write_u32(write_u32(write_u32(Zeroes,
        base + channel_size_offset, channel_size),
        base + producer_seq_offset, producer_seq),
        base + consumer_seq_offset, consumer_seq),
        base + flags_offset, flags),
        base + data_size_offset, data_size)

Rest ==
    /\ actor = [c \in Ctx |-> IF c = "a" THEN "Producer" ELSE "Consumer"]
    /\ variant = [c \in Ctx |-> "Channel"]
    /\ pc = [c \in Ctx |-> "rest"]
    /\ op = [c \in Ctx |-> NoOp]
    /\ reg = [c \in Ctx |-> NoReg]
    /\ buf = [c \in Ctx |-> << >>]
    /\ ret = [c \in Ctx |-> NoRet]
    /\ log = [c \in Ctx |-> << >>]
    /\ pre = [c \in Ctx |-> NoPre]
    /\ inflight = [name |-> "none", data |-> << >>]
    /\ client = NoClient

\* a created channel with a Producer handle and a Consumer handle on it
Init ==
    /\ mem = Format(ChannelBase, ChannelSize, 0, 0, ChannelFlags_Ok, 0)
    /\ base_addr = [c \in Ctx |-> ChannelBase]
    /\ live = [c \in Ctx |-> TRUE]
    /\ hist = [pubs |-> 0, cons |-> 0, fails |-> 0, created |-> ChannelSize, refused |-> 0]
    /\ Rest

Next ==
    \/ \E c \in Ctx : \E data \in WordPayloads(actor[c]) : PublishDataCall(c, data)
    \/ \E c \in Ctx : \E data \in BytePayloads(actor[c]) : PublishBytesCall(c, data)
    \/ \E c \in Ctx : CanPublishCall(c)
    \/ \E c \in Ctx : \E n \in ByteBufLens(actor[c]) : ConsumeBytesCall(c, n)
    \/ \E c \in Ctx : \E n \in WordBufLens(actor[c]) : ConsumeDataCall(c, n)
    \/ \E c \in Ctx : DataAvailableCall(c)
    \/ \E c \in Ctx : DataCapacityCall(c)
    \/ \E c \in Ctx : DataCapacityStep(c)
    \/ \E c \in Ctx : IdleReadProducerSeq(c)
    \/ \E c \in Ctx : IdleReadConsumerSeq(c)
    \/ \E c \in Ctx : PublishBytesWord(c)
    \/ \E c \in Ctx : PublishBytesFinalWord(c)
    \/ \E c \in Ctx : WriteBulkWord(c)
    \/ \E c \in Ctx : WriteDataSize(c)
    \/ \E c \in Ctx : WriteFlags(c)
    \/ \E c \in Ctx : IncProducerSeqRead(c)
    \/ \E c \in Ctx : IncProducerSeqWrite(c)
    \/ \E c \in Ctx : ReadDataSize(c)
    \/ \E c \in Ctx : ConsumeBytesWord(c)
    \/ \E c \in Ctx : ConsumeBytesFinalWord(c)
    \/ \E c \in Ctx : ReadBulkWord(c)
    \/ \E c \in Ctx : SetConsumerSeqRead(c)
    \/ \E c \in Ctx : SetConsumerSeqWrite(c)
    \/ \E c \in Ctx : Return(c)

\* every medium access completes
Spec == Init /\ [][Next]_vars

\* an unformatted region: channel_size is zero, the other header words hold anything
InitCreate ==
    /\ \E p \in {0, 7}, q \in {0, 7}, f \in {0, 2}, d \in {0, 5} :
            mem = Format(ChannelBase, 0, p, q, f, d)
    /\ base_addr = [c \in Ctx |-> 0]
    /\ live = [c \in Ctx |-> FALSE]
    /\ hist = [pubs |-> 0, cons |-> 0, fails |-> 0, created |-> 0, refused |-> 0]
    /\ Rest

Bases == {ChannelBase, ChannelBase + 2}
Sizes == {min_channel_size - 1, min_channel_size, ChannelSize, ChannelSize + 2}

NextCreate ==
    \/ \E c \in Ctx, base \in Bases, size \in Sizes : NewCall(c, base, size)
    \/ \E c \in Ctx : NewWrite(c)
    \/ \E c \in Ctx, base \in Bases : FromTargetCall(c, base)
    \/ \E c \in Ctx : FromTargetRead(c)
    \/ \E c \in Ctx : Drop(c)
    \/ \E c \in Ctx : CanPublishCall(c)
    \/ \E c \in Ctx : DataAvailableCall(c)
    \/ \E c \in Ctx : DataCapacityCall(c)
    \/ \E c \in Ctx : DataCapacityStep(c)
    \/ \E c \in Ctx : IdleReadProducerSeq(c)
    \/ \E c \in Ctx : IdleReadConsumerSeq(c)
    \/ \E c \in Ctx : IoFail(c)
    \/ \E c \in Ctx : Return(c)

SpecCreate == InitCreate /\ [][NextCreate]_vars

-----------------------------------------------------------------------------
(* Properties *)

IsPublish(o) == o.name \in {"publish_data", "publish_bytes"}
IsConsume(o) == o.name \in {"consume_bytes", "consume_data"}

Writes(c) == {i \in 1 .. Len(log[c]) : log[c][i][1] = "w"}
WritesTo(c, a) == {i \in Writes(c) : log[c][i][2] = a}

ChannelIdle == idle(Header(mem, ChannelBase).p, Header(mem, ChannelBase).c)
DataSizeWord == read_u32(mem, ChannelBase + data_size_offset)

\* word k (from 0) of a payload as it lies in the data area: little-endian, the
\* lanes past the payload's end zero
PayloadWord(bytes, k) ==
    from_le_bytes([i \in 1 .. 4 |-> IF 4 * k + i <= Len(bytes) THEN bytes[4 * k + i] ELSE 0])

\* C1: every data_size and payload word a consume has read, after it saw
\* producer_seq # consumer_seq, is the one the publish that made the channel
\* busy wrote (checked while that publish is the last one).
C1_NoTornRead ==
    \A c \in Ctx :
        (IsConsume(op[c]) /\ (ret[c].tag = "Ok" => hist.pubs = hist.cons)) =>
            \A i \in 1 .. Len(log[c]) :
                LET e == log[c][i]
                IN /\ (e[1] = "r" /\ e[2] = base_addr[c] + data_size_offset)
                        => e[3] = Len(inflight.data)
                   /\ (e[1] = "r" /\ e[2] >= data_start_addr(base_addr[c]))
                        => e[3] = PayloadWord(inflight.data,
                                              (e[2] - data_start_addr(base_addr[c])) \div 4)

\* a consume of the second payload, a word and a tail, has read it all while the
\* producer is inside a probe
C1_Witness ==
    /\ hist.pubs = 2
    /\ \E c, d \in Ctx :
          /\ op[c].name = "consume_bytes" /\ pc[c] = "set_r" /\ reg[c].ds = 5
          /\ Len(log[c]) = 6
          /\ op[d].name = "can_publish" /\ pc[d] = "idle_c"

\* C2: a Producer publish called on an idle channel with a payload within
\* capacity ends with Ok, and the step that ends it leaves producer_seq one past
\* its value at the call, consumer_seq as at the call, data_size the payload's
\* byte length, having written producer_seq once.
C2_PublishIdle ==
    [][\A c \in Ctx :
        (/\ pc[c] # "done" /\ pc'[c] = "done"
         /\ IsPublish(op[c]) /\ actor[c] = "Producer"
         /\ idle(pre[c].p, pre[c].c)
         /\ ~usize_gt(ByteLen(op[c]), data_capacity(pre[c].size)))
        => /\ ret'[c] = Ok(0, FALSE)
           /\ read_u32(mem', base_addr[c] + producer_seq_offset) =
                 (IF pre[c].p = 2147483647 THEN -2147483647 - 1 ELSE pre[c].p + 1)
           /\ read_u32(mem', base_addr[c] + consumer_seq_offset) = pre[c].c
           /\ read_u32(mem', base_addr[c] + data_size_offset) = ByteLen(op[c])
           /\ Cardinality({i \in 1 .. Len(log'[c]) :
                    log'[c][i][1] = "w" /\ log'[c][i][2] = base_addr[c] + producer_seq_offset}) = 1
      ]_vars

C2_Witness ==
    \E c \in Ctx :
        /\ pc[c] = "done" /\ op[c].name = "publish_bytes" /\ ret[c].tag = "Ok"
        /\ Len(op[c].data) = Capacity - 1
        /\ hist.pubs = 2
        /\ Header(mem, ChannelBase).p = 2

\* C3 as stated: every Producer publish called on a busy channel that stays busy
\* returns Err(Busy) and writes nothing.
C3_BusyPublishIsBusy ==
    \A c \in Ctx :
        (/\ pc[c] = "done" /\ IsPublish(op[c]) /\ actor[c] = "Producer"
         /\ ~idle(pre[c].p, pre[c].c)
         /\ Header(mem, base_addr[c]).c = pre[c].c)
        => ret[c] = Err("Busy") /\ Writes(c) = {}

\* C3, amended: a Producer publish called on a busy channel that stays busy
\* writes nothing to the medium, and returns Err(Busy) when its payload is within
\* capacity (Err(PayloadTooLarge) when it is not).
C3_BusyPublishRejected ==
    \A c \in Ctx :
        (/\ pc[c] = "done" /\ IsPublish(op[c]) /\ actor[c] = "Producer"
         /\ ~idle(pre[c].p, pre[c].c)
         /\ Header(mem, base_addr[c]).c = pre[c].c)
        => /\ Writes(c) = {}
           /\ ret[c] = IF usize_gt(ByteLen(op[c]), data_capacity(pre[c].size))
                        THEN Err("PayloadTooLarge") ELSE Err("Busy")
           /\ DataSizeWord = Len(inflight.data)
           /\ \A k \in 0 .. div_ceil4(Len(inflight.data)) - 1 :
                 read_u32(mem, data_start_addr(base_addr[c]) + 4 * k)
                    = PayloadWord(inflight.data, k)

\* a second, different payload was offered while the first was unconsumed
C3_Witness ==
    \E c \in Ctx :
        /\ pc[c] = "done" /\ op[c].name = "publish_bytes" /\ ret[c] = Err("Busy")
        /\ Len(op[c].data) = Capacity /\ Len(inflight.data) = 3
        /\ Header(mem, base_addr[c]).c = pre[c].c

\* C4: the publishes and consumes that returned Ok alternate, the channel is
\* idle exactly when every published payload has been consumed, and a consume
\* that returned Ok left consumer_seq equal to the producer_seq it read.
C4_DeliveredOnce ==
    /\ hist.cons <= hist.pubs
    /\ hist.pubs <= hist.cons + 1
    /\ ChannelIdle <=> hist.pubs = hist.cons
    /\ \A c \in Ctx :
          (pc[c] = "done" /\ IsConsume(op[c]) /\ ret[c].tag = "Ok" /\ hist.pubs = hist.cons)
          => /\ Header(mem, base_addr[c]).c = reg[c].p
             /\ Header(mem, base_addr[c]).p = reg[c].p

\* the second payload has been consumed, once
C4_Witness ==
    \E c \in Ctx :
        /\ pc[c] = "done" /\ op[c].name = "consume_data" /\ ret[c] = Ok(CapWords, FALSE)
        /\ hist.pubs = 2 /\ hist.cons = 2 /\ ChannelIdle

\* C5: a Consumer consume called on an idle channel that stays idle returns
\* Err(NoData), has written nothing to the medium, and the caller's buffer is
\* as it was.
C5_ConsumeIdle ==
    \A c \in Ctx :
        (/\ pc[c] = "done" /\ IsConsume(op[c]) /\ actor[c] = "Consumer"
         /\ idle(pre[c].p, pre[c].c)
         /\ Header(mem, base_addr[c]).p = pre[c].p)
        => /\ ret[c] = Err("NoData")
           /\ Writes(c) = {}
           /\ buf[c] = IF op[c].name = "consume_bytes"
                        THEN FreshBytes(op[c].len) ELSE FreshWords(op[c].len)

\* a second consume with no publish in between
C5_Witness ==
    \E c \in Ctx :
        /\ pc[c] = "done" /\ op[c].name = "consume_bytes" /\ op[c].len = Capacity + 1
        /\ ret[c] = Err("NoData")
        /\ hist.pubs = 1 /\ hist.cons = 1

\* C6: a consume_bytes called while a publish_bytes payload P is unconsumed
\* returns Ok when its buffer holds Len(P) bytes or more (and only then); it
\* returns Len(P) and the first Len(P) bytes of the buffer are P.
C6_RoundTrip ==
    \A c \in Ctx :
        (/\ pc[c] = "done" /\ op[c].name = "consume_bytes" /\ actor[c] = "Consumer"
         /\ ~idle(pre[c].p, pre[c].c)
         /\ inflight.name = "publish_bytes")
        => IF ret[c].tag = "Ok"
           THEN hist.pubs = hist.cons =>
                    /\ ret[c].val = Len(inflight.data)
                    /\ SubSeq(buf[c], 1, ret[c].val) = inflight.data
           ELSE /\ ret[c] = Err("BufferTooSmall")
                /\ op[c].len < Len(inflight.data)

\* a payload that fills the capacity came back whole
C6_Witness ==
    \E c \in Ctx :
        /\ pc[c] = "done" /\ op[c].name = "consume_bytes" /\ ret[c] = Ok(Capacity, FALSE)
        /\ inflight = [name |-> "publish_bytes", data |-> BytePayload(Capacity)]
        /\ SubSeq(buf[c], 1, Capacity) = BytePayload(Capacity)
        /\ hist.pubs = 2

\* C7: a Producer publish whose payload is longer than channel_size - 20
\* returns Err(PayloadTooLarge) and has written nothing to the medium.
C7_TooLarge ==
    \A c \in Ctx :
        (/\ pc[c] = "done" /\ IsPublish(op[c]) /\ actor[c] = "Producer"
         /\ ByteLen(op[c]) > Header(mem, base_addr[c]).size - data_offset)
        => ret[c] = Err("PayloadTooLarge") /\ Writes(c) = {}

\* one byte more than the capacity was refused and the region is untouched
C7_Witness ==
    \E c \in Ctx :
        /\ pc[c] = "done" /\ op[c].name = "publish_bytes" /\ Len(op[c].data) = Capacity + 1
        /\ ret[c] = Err("PayloadTooLarge")
        /\ mem = Format(ChannelBase, ChannelSize, 0, 0, ChannelFlags_Ok, 0)

\* C8: from_target at a 4-byte-aligned base that reads channel_size = 0 returns
\* Err(Uninit).
C8_AttachUninit ==
    \A c \in Ctx :
        (/\ pc[c] = "done" /\ op[c].name = "from_target"
         /\ base_addr[c] % 4 = 0
         /\ log[c] = << << "r", base_addr[c] + channel_size_offset, 0 >> >>)
        => ret[c] = Err("Uninit")

\* C9: until a create has completed the channel_size word is zero (before it,
\* at each of its steps, after it was aborted by a medium failure), and a
\* from_target that returned Ok found producer_seq = consumer_seq = 0,
\* flags = Ok and data_size = 0.
C9_CreateOrdering ==
    /\ hist.created = 0 => read_u32(mem, ChannelBase + channel_size_offset) = 0
    /\ \A c \in Ctx :
          (pc[c] = "done" /\ op[c].name = "from_target" /\ ret[c].tag = "Ok")
          => /\ read_u32(mem, base_addr[c] + producer_seq_offset) = 0
             /\ read_u32(mem, base_addr[c] + consumer_seq_offset) = 0
             /\ read_u32(mem, base_addr[c] + flags_offset) = 0
             /\ read_u32(mem, base_addr[c] + data_size_offset) = 0

\* an attach called on the unformatted header has failed while the create is
\* one write short of publishing the size
C9_Witness ==
    \E c, d \in Ctx :
        /\ op[c].name = "new" /\ pc[c] = "new_w" /\ reg[c].idx = 5
        /\ op[d].name = "from_target" /\ pc[d] = "done" /\ ret[d].tag = "Err"
        /\ Len(log[d]) = 1
        /\ pre[d].p = 7 /\ pre[d].c = 0

\* C10: once new(base, size) has returned Ok for an aligned base and a size of
\* 24 or more, a from_target at that base that meets no medium failure returns
\* Ok having read channel_size = size, data_capacity returns size - 20,
\* can_publish returns true and data_available returns None.  The create had
\* returned when the operation was called: the size word was already nonzero.
C10_CreateThenAttach ==
    \A c \in Ctx :
        (/\ pc[c] = "done" /\ hist.created >= 24
         /\ pre[c].size # 0
         /\ base_addr[c] % 4 = 0
         /\ ret[c] # Err("Io"))
        => CASE op[c].name = "from_target" ->
                    ret[c].tag = "Ok" /\ live[c] /\ reg[c].size = hist.created
             [] op[c].name = "data_capacity" -> ret[c] = Ok(hist.created - 20, FALSE)
             [] op[c].name = "can_publish" -> ret[c] = Ok(0, TRUE)
             [] op[c].name = "data_available" -> ret[c] = Ok(0, FALSE)
             [] OTHER -> TRUE

\* the smallest channel, attached by the side that did not create it
C10_Witness ==
    \E c, d \in Ctx :
        /\ c # d /\ live[d] /\ base_addr[d] = ChannelBase
        /\ pc[c] = "done" /\ op[c].name = "from_target" /\ ret[c].tag = "Ok"
        /\ hist.created = 24 /\ pre[c].size = 24 /\ reg[c].size = 24

\* C11: on a created channel with one producer and one consumer, producer_seq
\* is consumer_seq or consumer_seq + 1 (mod 2^32); the difference is the number
\* of payloads published and not yet consumed, so at most one is in flight.
C11_AtMostOneInFlight ==
    LET p == read_u32(mem, ChannelBase + producer_seq_offset)
        c == read_u32(mem, ChannelBase + consumer_seq_offset)
    IN /\ p = c \/ p = (IF c = 2147483647 THEN -2147483647 - 1 ELSE c + 1)
       /\ hist.pubs - hist.cons \in {0, 1}
       /\ p = c <=> hist.pubs = hist.cons

\* the second payload is in flight and the consumer is reading it
C11_Witness ==
    /\ read_u32(mem, ChannelBase + producer_seq_offset) = 2
    /\ read_u32(mem, ChannelBase + consumer_seq_offset) = 1
    /\ \E x \in Ctx : op[x].name = "consume_data" /\ pc[x] = "payload_r" /\ reg[x].idx = 1

-----------------------------------------------------------------------------
(* Sequence numbers about to wrap *)

\* a created channel whose sequence numbers have both reached 0xFFFFFFFF
InitWrap ==
    /\ mem = Format(ChannelBase, ChannelSize, -1, -1, ChannelFlags_Ok, 0)
    /\ base_addr = [c \in Ctx |-> ChannelBase]
    /\ live = [c \in Ctx |-> TRUE]
    /\ hist = [pubs |-> 0, cons |-> 0, fails |-> 0, created |-> ChannelSize, refused |-> 0]
    /\ Rest

SpecWrap == InitWrap /\ [][Next]_vars

\* the sequence number n increments after 0xFFFFFFFF
SeqAfter(n) == IF n = 0 THEN -1 ELSE n - 1

\* C12: from producer_seq = consumer_seq = 0xFFFFFFFF the first publish leaves
\* producer_seq = 0; while consumer_seq is still 0xFFFFFFFF data_available
\* returns Some(data_size), can_publish returns false and a consume does not
\* return NoData; the consume leaves consumer_seq = 0.  The sequence numbers
\* count the publishes and consumes from there on.
C12_Wraparound ==
    LET p == read_u32(mem, ChannelBase + producer_seq_offset)
        c == read_u32(mem, ChannelBase + consumer_seq_offset)
    IN /\ p = SeqAfter(hist.pubs)
       /\ c = SeqAfter(hist.cons)
       /\ hist.pubs - hist.cons \in {0, 1}
       /\ \A x \in Ctx :
            (pc[x] = "done" /\ pre[x].p = 0 /\ pre[x].c = -1 /\ c = -1) =>
                /\ op[x].name = "data_available" => ret[x] = Ok(Len(inflight.data), TRUE)
                /\ op[x].name = "can_publish" => ret[x] = Ok(0, FALSE)
       /\ \A x \in Ctx :
            (pc[x] = "done" /\ IsConsume(op[x]) /\ actor[x] = "Consumer"
                /\ pre[x].p = 0 /\ pre[x].c = -1) => ret[x] # Err("NoData")

\* the payload published across the wrap has been consumed and the channel is
\* idle at 0 / 0
C12_Witness ==
    /\ read_u32(mem, ChannelBase + producer_seq_offset) = 0
    /\ read_u32(mem, ChannelBase + consumer_seq_offset) = 0
    /\ \E x \in Ctx :
          /\ pc[x] = "done" /\ op[x].name = "consume_bytes" /\ ret[x] = Ok(3, FALSE)
          /\ pre[x].p = 0 /\ pre[x].c = -1

\* C13: publish_data and publish_bytes on a Consumer handle, and consume_bytes
\* and consume_data on a Producer handle, return Err(InvalidOperation) having
\* made no medium access and left the caller's buffer as it was, whatever the
\* channel state and the argument.
C13_RoleEnforced ==
    \A c \in Ctx :
        (/\ pc[c] = "done"
         /\ \/ IsPublish(op[c]) /\ actor[c] = "Consumer"
            \/ IsConsume(op[c]) /\ actor[c] = "Producer")
        => /\ ret[c] = Err("InvalidOperation")
           /\ log[c] = << >>
           /\ op[c].name = "consume_bytes" => buf[c] = FreshBytes(op[c].len)
           /\ op[c].name = "consume_data" => buf[c] = FreshWords(op[c].len)

\* the Consumer handle offered a payload while the channel was busy, the
\* Producer handle tried to consume it
C13_Witness ==
    \E c, d \in Ctx :
        /\ actor[c] = "Consumer" /\ pc[c] = "done" /\ op[c].name = "publish_bytes"
        /\ Len(op[c].data) = Capacity + 1 /\ ret[c] = Err("InvalidOperation")
        /\ actor[d] = "Producer" /\ pc[d] = "done" /\ op[d].name = "consume_data"
        /\ op[d].len = CapWords /\ ret[d] = Err("InvalidOperation")
        /\ hist.pubs = 1 /\ hist.cons = 0

-----------------------------------------------------------------------------
(* A channel created again while the other side holds a handle on it *)

\* Channel::new on a region that already holds a channel (the client's Direct
\* configuration creates its channels on every request)
RecreateCall(c, base, size) ==
    /\ hist.created # 0
    /\ \A d \in Ctx : op[d].name # "new"
    /\ Construct(c, [name |-> "new", data |-> << >>, len |-> size], base,
                 IF check_base_addr(base) # "Ok" THEN check_base_addr(base)
                 ELSE check_channel_size(size))

\* a channel that has carried s payloads, the last of d bytes; the Consumer
\* side holds its handle, the Producer side has dropped its own
InitRecreate ==
    /\ \E s \in {0, 1}, d \in {0, 5} :
            mem = Format(ChannelBase, ChannelSize, s, s, ChannelFlags_Ok, d)
    /\ base_addr = [c \in Ctx |-> ChannelBase]
    /\ live = [c \in Ctx |-> c = "b"]
    /\ hist = [pubs |-> 0, cons |-> 0, fails |-> 0, created |-> ChannelSize, refused |-> 0]
    /\ Rest

NextRecreate ==
    \/ \E c \in Ctx : RecreateCall(c, ChannelBase, ChannelSize)
    \/ \E c \in Ctx : NewWrite(c)
    \/ \E c \in Ctx : Drop(c)
    \/ \E c \in Ctx : DataCapacityCall(c)
    \/ \E c \in Ctx : DataAvailableCall(c)
    \/ \E c \in Ctx : ConsumeBytesCall(c, Capacity)
    \/ \E c \in Ctx : DataCapacityStep(c)
    \/ \E c \in Ctx : IdleReadProducerSeq(c)
    \/ \E c \in Ctx : IdleReadConsumerSeq(c)
    \/ \E c \in Ctx : ReadDataSize(c)
    \/ \E c \in Ctx : ConsumeBytesWord(c)
    \/ \E c \in Ctx : ConsumeBytesFinalWord(c)
    \/ \E c \in Ctx : SetConsumerSeqRead(c)
    \/ \E c \in Ctx : SetConsumerSeqWrite(c)
    \/ \E c \in Ctx : Return(c)

SpecRecreate == InitRecreate /\ [][NextRecreate]_vars

\* C14: every operation returns Ok or Err; none ends in a panic.
C14_NeverAborts == \A c \in Ctx : ret[c].tag \in {"None", "Ok", "Err"}

C16_NotAligned ==
    \A c \in Ctx :
        (/\ pc[c] = "done" /\ op[c].name \in {"new", "from_target"}
         /\ base_addr[c] % 4 # 0)
        => ret[c] = Err("NotAligned") /\ log[c] = << >> /\ ~live[c]

\* both constructors were refused at the odd base, new with a valid size
C16_Witness ==
    \E c, d \in Ctx :
        /\ pc[c] = "done" /\ op[c] = [name |-> "new", data |-> << >>, len |-> ChannelSize]
        /\ base_addr[c] = ChannelBase + 2 /\ ret[c] = Err("NotAligned")
        /\ pc[d] = "done" /\ op[d].name = "from_target"
        /\ base_addr[d] = ChannelBase + 2 /\ ret[d] = Err("NotAligned")

-----------------------------------------------------------------------------
(* A region whose channel_size word holds an arbitrary value *)

AttachSizes == {1, data_offset, min_channel_size - 1, min_channel_size, ChannelSize}

InitAttach ==
    /\ \E s \in AttachSizes : mem = Format(ChannelBase, s, 0, 0, ChannelFlags_Ok, 0)
    /\ base_addr = [c \in Ctx |-> 0]
    /\ live = [c \in Ctx |-> FALSE]
    /\ hist = [pubs |-> 0, cons |-> 0, fails |-> 0, created |-> 0, refused |-> 0]
    /\ Rest

NextAttach ==
    \/ \E c \in Ctx, size \in Sizes : NewCall(c, ChannelBase, size)
    \/ \E c \in Ctx : NewWrite(c)
    \/ \E c \in Ctx : FromTargetCall(c, ChannelBase)
    \/ \E c \in Ctx : FromTargetRead(c)
    \/ \E c \in Ctx : DataCapacityCall(c)
    \/ \E c \in Ctx : DataCapacityStep(c)
    \/ \E c \in Ctx : Drop(c)
    \/ \E c \in Ctx : Return(c)

SpecAttach == InitAttach /\ [][NextAttach]_vars

\* C17: at an aligned base, new with a size below 24 returns
\* Err(BufferTooSmall) and writes nothing; from_target that reads a channel_size
\* from 1 to 23 returns Err(BufferTooSmall); with a size of 24 both return Ok
\* and data_capacity returns 4.
C17_MinimumSize ==
    \A c \in Ctx :
        (pc[c] = "done" /\ base_addr[c] % 4 = 0) =>
            /\ (op[c].name = "new" /\ op[c].len < 24)
                    => ret[c] = Err("BufferTooSmall") /\ log[c] = << >>
            /\ (op[c].name = "new" /\ op[c].len = 24) => ret[c].tag = "Ok" /\ live[c]
            /\ (op[c].name = "from_target" /\ Len(log[c]) = 1) =>
                    /\ (0 < log[c][1][3] /\ log[c][1][3] < 24) => ret[c] = Err("BufferTooSmall")
                    /\ log[c][1][3] = 24 => ret[c].tag = "Ok" /\ live[c]
            /\ (op[c].name = "data_capacity" /\ log[c][1][3] = 24) => ret[c] = Ok(4, FALSE)

\* a region declaring 23 bytes was refused, then created with 24 bytes and
\* its capacity read
C17_Witness ==
    \E c, d \in Ctx :
        /\ pc[c] = "done" /\ op[c].name = "from_target"
        /\ log[c] = << << "r", ChannelBase, 23 >> >> /\ ret[c] = Err("BufferTooSmall")
        /\ pc[d] = "done" /\ op[d].name = "data_capacity" /\ ret[d] = Ok(4, FALSE)
        /\ hist.created = 24

\* the little-endian word made of bytes 4k+1 .. 4k+4 of a byte sequence
LeWord(bytes, k) ==
    bytes[4 * k + 1] + 256 * bytes[4 * k + 2] + 65536 * bytes[4 * k + 3]
        + 16777216 * (IF bytes[4 * k + 4] >= 128 THEN bytes[4 * k + 4] - 256 ELSE bytes[4 * k + 4])

\* the byte sequence a word sequence stands for, least significant byte first
LeBytes(words) ==
    [i \in 1 .. 4 * Len(words) |->
        LET w == words[(i + 3) \div 4]
            lane == (i - 1) % 4
        IN CASE lane = 0 -> w % 256
             [] lane = 1 -> (w \div 256) % 256
             [] lane = 2 -> (w \div 65536) % 256
             [] lane = 3 -> (w \div 16777216) % 256]

\* C18: for a payload of a multiple of 4 bytes, the data_size word and the
\* payload words in the medium are those of its little-endian byte sequence
\* whether publish_data or publish_bytes wrote it, and consume_data and
\* consume_bytes deliver that same byte sequence.
C18_WireIdentical ==
    LET p == read_u32(mem, ChannelBase + producer_seq_offset)
        c == read_u32(mem, ChannelBase + consumer_seq_offset)
        n == Len(inflight.data)
    IN n % 4 = 0 =>
        /\ p # c =>
            /\ read_u32(mem, ChannelBase + data_size_offset) = n
            /\ \A k \in 0 .. n \div 4 - 1 :
                  read_u32(mem, ChannelBase + data_offset + 4 * k) = LeWord(inflight.data, k)
        /\ \A x \in Ctx :
            (pc[x] = "done" /\ IsConsume(op[x]) /\ ret[x].tag = "Ok" /\ hist.pubs = hist.cons)
            => /\ op[x].name = "consume_bytes" =>
                    ret[x].val = n /\ SubSeq(buf[x], 1, n) = inflight.data
               /\ op[x].name = "consume_data" =>
                    ret[x].val = n \div 4 /\ LeBytes(SubSeq(buf[x], 1, n \div 4)) = inflight.data

\* the second payload, published as words with publish_data, was consumed as
\* bytes
C18_Witness ==
    \E x \in Ctx :
        /\ pc[x] = "done" /\ op[x].name = "consume_bytes" /\ ret[x] = Ok(Capacity, FALSE)
        /\ inflight.name = "publish_data"
        /\ SubSeq(buf[x], 1, Capacity) = BytePayload(Capacity)
        /\ hist.cons = 2

IsProbe(o) == o.name \in {"can_publish", "data_available"}

\* the operation of x was called and has ended with no publish or consume
\* completing in between: the sequence words are as they were at its call
WithinEpoch(x) ==
    /\ pc[x] = "done"
    /\ pre[x].p = read_u32(mem, base_addr[x] + producer_seq_offset)
    /\ pre[x].c = read_u32(mem, base_addr[x] + consumer_seq_offset)

\* C19: can_publish and data_available write nothing to the medium, and two
\* calls of the same probe with no publish or consume completing from the call
\* of the first to the return of the last return the same result.
C19_ProbesRepeatable ==
    /\ \A x \in Ctx : IsProbe(op[x]) =>
            \A i \in 1 .. Len(log[x]) : log[x][i][1] = "r"
    /\ \A x, y \in Ctx :
            (/\ IsProbe(op[x]) /\ op[x].name = op[y].name
             /\ WithinEpoch(x) /\ WithinEpoch(y))
            => ret[x] = ret[y]

\* both handles have asked data_available about the same payload
C19_Witness ==
    \E x, y \in Ctx :
        /\ x # y
        /\ op[x].name = "data_available" /\ op[y].name = "data_available"
        /\ WithinEpoch(x) /\ WithinEpoch(y)
        /\ ret[x] = Ok(5, TRUE)
        /\ hist.pubs = 2 /\ hist.cons = 1

\* C20: with no publish or consume completing during the call, data_available
\* returns None when producer_seq = consumer_seq and Some(the data_size word)
\* when they differ, can_publish returns whether they are equal, and so
\* can_publish() = data_available().is_none().
C20_ProbeResults ==
    /\ \A x \in Ctx : WithinEpoch(x) =>
            LET p == read_u32(mem, ChannelBase + producer_seq_offset)
                c == read_u32(mem, ChannelBase + consumer_seq_offset)
                ds == read_u32(mem, ChannelBase + data_size_offset)
            IN /\ op[x].name = "can_publish" => ret[x] = Ok(0, p = c)
               /\ op[x].name = "data_available" =>
                     ret[x] = IF p = c THEN Ok(0, FALSE) ELSE Ok(ds, TRUE)
    /\ \A x, y \in Ctx :
            (/\ op[x].name = "can_publish" /\ op[y].name = "data_available"
             /\ WithinEpoch(x) /\ WithinEpoch(y))
            => (ret[x].flag <=> ~ret[y].flag)

\* an empty payload is in flight: Some(0), and can_publish is false
C20_Witness ==
    \E x, y \in Ctx :
        /\ op[x].name = "can_publish" /\ WithinEpoch(x) /\ ret[x] = Ok(0, FALSE)
        /\ op[y].name = "data_available" /\ WithinEpoch(y) /\ ret[y] = Ok(0, TRUE)
        /\ inflight = [name |-> "publish_bytes", data |-> << >>]

-----------------------------------------------------------------------------
(* The two variants side by side: a Channel on one region and an AsyncChannel
   on a second region of the same content, given the same calls in turn *)

\* the second region lies past the first
AsyncBase == ChannelBase + ChannelSize + 4
RegionBytes == ChannelSize + 4

\* the same content in both regions
Twin(m) ==
    [x \in Addr |-> IF x >= AsyncBase /\ x < AsyncBase + RegionBytes
                    THEN m[x - (AsyncBase - ChannelBase)] ELSE m[x]]

\* a busy channel: data_size 5, payload words whose unused lanes are not zero
BusyRegion ==
    write_u32(write_u32(Format(ChannelBase, ChannelSize, 1, 0, ChannelFlags_Ok, 5),
        ChannelBase + data_offset, Pack(BytePayload(8))[1]),
        ChannelBase + data_offset + 4, Pack(BytePayload(8))[2])

\* unformatted, created and idle, created and busy
VariantRegions ==
    { [m |-> Format(ChannelBase, 0, 7, 0, 2, 5), created |-> 0],
      [m |-> Format(ChannelBase, ChannelSize, 0, 0, ChannelFlags_Ok, 0), created |-> ChannelSize],
      [m |-> BusyRegion, created |-> ChannelSize] }

InitVariants ==
    /\ \E r \in VariantRegions :
            /\ mem = Twin(r.m)
            /\ hist = [pubs |-> 0, cons |-> 0, fails |-> 0, created |-> r.created, refused |-> 0]
    /\ \E role \in {"Producer", "Consumer"} : actor = [c \in Ctx |-> role]
    /\ variant = [c \in Ctx |-> IF c = "a" THEN "Channel" ELSE "AsyncChannel"]
    /\ base_addr = [c \in Ctx |-> 0]
    /\ live = [c \in Ctx |-> FALSE]
    /\ pc = [c \in Ctx |-> "rest"]
    /\ op = [c \in Ctx |-> NoOp]
    /\ reg = [c \in Ctx |-> NoReg]
    /\ buf = [c \in Ctx |-> << >>]
    /\ ret = [c \in Ctx |-> NoRet]
    /\ log = [c \in Ctx |-> << >>]
    /\ pre = [c \in Ctx |-> NoPre]
    /\ inflight = [name |-> "none", data |-> << >>]
    /\ client = NoClient

\* the checks an AsyncChannel method makes before its first medium access
async_entry_check(o, a, base) ==
    CASE o.name \in {"publish_data", "publish_bytes"} -> producer_only(a)
      [] o.name \in {"consume_bytes", "consume_data"} -> consumer_only(a)
      [] o.name = "new" -> IF check_base_addr(base) # "Ok" THEN check_base_addr(base)
                           ELSE check_channel_size(o.len)
      [] o.name = "from_target" -> check_base_addr(base)
      [] OTHER -> "Ok"

\* the caller's buffer of the length the call names
FreshBuf(o) ==
    CASE o.name = "consume_bytes" -> FreshBytes(o.len)
      [] o.name = "consume_data" -> FreshWords(o.len)
      [] OTHER -> << >>

\* the AsyncChannel is given the call the Channel has just completed
AsyncCall(c) ==
    /\ variant[c] = "AsyncChannel"
    /\ \E d \in Ctx \ {c} :
        /\ pc[d] = "done"
        /\ LET o == op[d]
               base == base_addr[d] + (AsyncBase - ChannelBase)
           IN IF o.name \in {"new", "from_target"}
              THEN Construct(c, o, base, async_entry_check(o, actor[c], base))
              ELSE Call(c, o, FreshBuf(o), async_entry_check(o, actor[c], base_addr[c]))

\* both handles are dropped
DropBoth ==
    /\ \A c \in Ctx : pc[c] = "rest" /\ live[c]
    /\ live' = [c \in Ctx |-> FALSE]
    /\ UNCHANGED << mem, actor, variant, client, base_addr, pc, op, reg, buf, ret, log, pre, inflight, hist >>

\* the Channel is called when the AsyncChannel has returned from the call before
Turn == pc["b"] = "rest"

VariantSizes == {min_channel_size - 1, ChannelSize}

NextVariants ==
    \/ Turn /\ \E base \in Bases, size \in VariantSizes : NewCall("a", base, size)
    \/ Turn /\ \E base \in Bases, size \in VariantSizes : RecreateCall("a", base, size)
    \/ Turn /\ \E base \in Bases : FromTargetCall("a", base)
    \/ Turn /\ \E data \in WordPayloads(actor["a"]) : PublishDataCall("a", data)
    \/ Turn /\ \E data \in BytePayloads(actor["a"]) : PublishBytesCall("a", data)
    \/ Turn /\ CanPublishCall("a")
    \/ Turn /\ \E n \in ByteBufLens(actor["a"]) : ConsumeBytesCall("a", n)
    \/ Turn /\ \E n \in WordBufLens(actor["a"]) : ConsumeDataCall("a", n)
    \/ Turn /\ DataAvailableCall("a")
    \/ Turn /\ DataCapacityCall("a")
    \/ AsyncCall("b")
    \/ DropBoth
    \/ \E c \in Ctx : NewWrite(c)
    \/ \E c \in Ctx : FromTargetRead(c)
    \/ \E c \in Ctx : DataCapacityStep(c)
    \/ \E c \in Ctx : IdleReadProducerSeq(c)
    \/ \E c \in Ctx : IdleReadConsumerSeq(c)
    \/ \E c \in Ctx : PublishBytesWord(c)
    \/ \E c \in Ctx : PublishBytesFinalWord(c)
    \/ \E c \in Ctx : WriteBulkWord(c)
    \/ \E c \in Ctx : WriteDataSize(c)
    \/ \E c \in Ctx : WriteFlags(c)
    \/ \E c \in Ctx : IncProducerSeqRead(c)
    \/ \E c \in Ctx : IncProducerSeqWrite(c)
    \/ \E c \in Ctx : ReadDataSize(c)
    \/ \E c \in Ctx : ConsumeBytesWord(c)
    \/ \E c \in Ctx : ConsumeBytesFinalWord(c)
    \/ \E c \in Ctx : ReadBulkWord(c)
    \/ \E c \in Ctx : SetConsumerSeqRead(c)
    \/ \E c \in Ctx : SetConsumerSeqWrite(c)
    \/ pc["b"] = "done" /\ Return("a")
    \/ pc["a"] = "rest" /\ Return("b")

SpecVariants == InitVariants /\ [][NextVariants]_vars

\* the accesses of the first region, as they would fall in the second
Shifted(l) == [i \in 1 .. Len(l) |-> << l[i][1], l[i][2] + (AsyncBase - ChannelBase), l[i][3] >>]

\* C21: given the same operation, arguments and region content, the AsyncChannel
\* performs the medium accesses of the Channel (same kinds, offsets, values and
\* order), returns the same result with the same buffer content, and leaves
\* its region with the same content
C21_VariantsAgree ==
    (pc["a"] = "done" /\ pc["b"] # "rest") =>
        /\ op["b"] = op["a"]
        /\ Len(log["b"]) <= Len(log["a"])
        /\ \A i \in 1 .. Len(log["b"]) : log["b"][i] = Shifted(log["a"])[i]
        /\ pc["b"] = "done" =>
            /\ log["b"] = Shifted(log["a"])
            /\ ret["b"] = ret["a"]
            /\ buf["b"] = buf["a"]
            /\ live["b"] = live["a"]
            /\ \A i \in 0 .. RegionBytes - 1 : mem[AsyncBase + i] = mem[ChannelBase + i]

\* both variants have completed a consume of a payload with a partial final word
C21_Witness ==
    /\ pc["a"] = "done" /\ pc["b"] = "done"
    /\ op["b"].name = "consume_bytes"
    /\ ret["b"] = Ok(5, FALSE)
    /\ Len(log["b"]) = 8

-----------------------------------------------------------------------------
(* A medium whose accesses can fail *)

\* the Producer publishes a payload with a partial final word or a payload of one
\* word, the Consumer consumes into an ample buffer, either side probes
NextIo ==
    \/ PublishBytesCall("a", BytePayload(Capacity - 3))
    \/ PublishDataCall("a", Pack(BytePayload(4)))
    \/ ConsumeBytesCall("b", Capacity)
    \/ ConsumeDataCall("b", CapWords)
    \/ \E c \in Ctx : CanPublishCall(c)
    \/ \E c \in Ctx : DataAvailableCall(c)
    \/ \E c \in Ctx : DataCapacityCall(c)
    \/ \E c \in Ctx : DataCapacityStep(c)
    \/ \E c \in Ctx : IdleReadProducerSeq(c)
    \/ \E c \in Ctx : IdleReadConsumerSeq(c)
    \/ \E c \in Ctx : PublishBytesWord(c)
    \/ \E c \in Ctx : PublishBytesFinalWord(c)
    \/ \E c \in Ctx : WriteBulkWord(c)
    \/ \E c \in Ctx : WriteDataSize(c)
    \/ \E c \in Ctx : WriteFlags(c)
    \/ \E c \in Ctx : IncProducerSeqRead(c)
    \/ \E c \in Ctx : IncProducerSeqWrite(c)
    \/ \E c \in Ctx : ReadDataSize(c)
    \/ \E c \in Ctx : ConsumeBytesWord(c)
    \/ \E c \in Ctx : ConsumeBytesFinalWord(c)
    \/ \E c \in Ctx : ReadBulkWord(c)
    \/ \E c \in Ctx : SetConsumerSeqRead(c)
    \/ \E c \in Ctx : SetConsumerSeqWrite(c)
    \/ \E c \in Ctx : IoFail(c)
    \/ \E c \in Ctx : Return(c)

\* a created channel; up to MaxIoFails medium accesses fail
SpecIo == Init /\ [][NextIo]_vars

\* C22: when a medium access of an operation fails, the operation ends there
\* with Err(Io), the failed access having changed nothing; from then on the
\* operation performs no medium access
C22_IoFailureEnds ==
    [][/\ hist'.fails # hist.fails =>
            /\ mem' = mem
            /\ log' = log
            /\ \E c \in Ctx : /\ pc[c] \notin {"rest", "done"}
                              /\ pc'[c] = "done"
                              /\ ret'[c] = Err("Io")
       /\ \A c \in Ctx : ret[c] = Err("Io") =>
            /\ pc[c] = "done"
            /\ pc'[c] \in {"done", "rest"}
            /\ log'[c] \in {log[c], << >>}]_vars

\* a consume has failed at its fifth access, after four that completed
C22_Witness ==
    \E c \in Ctx :
        /\ IsConsume(op[c])
        /\ ret[c] = Err("Io")
        /\ Len(log[c]) = 4

\* C23: a publish that fails on a medium access has written neither sequence
\* word: producer_seq holds the value it had at the call, and once the publish
\* had found the channel idle, consumer_seq holds the value read then and the
\* channel is idle
C23_FailedPublish ==
    \A c \in Ctx :
        (IsPublish(op[c]) /\ pc[c] = "done" /\ ret[c] = Err("Io")) =>
            /\ WritesTo(c, base_addr[c] + producer_seq_offset) = {}
            /\ WritesTo(c, base_addr[c] + consumer_seq_offset) = {}
            /\ Header(mem, base_addr[c]).p = pre[c].p
            /\ Len(log[c]) >= 3 => ChannelIdle /\ Header(mem, base_addr[c]).c = reg[c].c

\* a publish has failed after writing its payload and data_size
C23_Witness ==
    \E c \in Ctx :
        /\ IsPublish(op[c])
        /\ pc[c] = "done"
        /\ ret[c] = Err("Io")
        /\ Writes(c) # {}
        /\ log[c][Len(log[c])][2] = base_addr[c] + data_size_offset

-----------------------------------------------------------------------------
(* Attaching to a channel a peer has left busy, and consuming from it *)

\* a busy channel announcing d payload bytes; the words of the payload area
\* and the word after it have no zero byte
ConsumeRegion(d) ==
    write_u32(write_u32(write_u32(Format(ChannelBase, ChannelSize, 1, 0, ChannelFlags_Ok, d),
        ChannelBase + data_offset, Pack(BytePayload(12))[1]),
        ChannelBase + data_offset + 4, Pack(BytePayload(12))[2]),
        ChannelBase + data_offset + 8, Pack(BytePayload(12))[3])

\* data_size values up to and past the capacity
ConsumeSizes == {0, 1, Capacity - 3, Capacity, Capacity + 1, Capacity + 4}

\* neither side holds a handle yet
InitConsume ==
    /\ \E d \in ConsumeSizes : mem = ConsumeRegion(d)
    /\ base_addr = [c \in Ctx |-> 0]
    /\ live = [c \in Ctx |-> FALSE]
    /\ hist = [pubs |-> 1, cons |-> 0, fails |-> 0, created |-> ChannelSize, refused |-> 0]
    /\ Rest

\* the consume ended on the validation of data_size
Refused(c) ==
    /\ IsConsume(op[c])
    /\ ret[c] \in {Err("BufferTooSmall"), Err("PayloadTooLarge")}

\* a refused consume returns to its caller
ReturnRefused(c) ==
    /\ pc[c] = "done"
    /\ Refused(c)
    /\ pc' = [pc EXCEPT ![c] = "rest"]
    /\ op' = [op EXCEPT ![c] = NoOp]
    /\ reg' = [reg EXCEPT ![c] = NoReg]
    /\ buf' = [buf EXCEPT ![c] = << >>]
    /\ ret' = [ret EXCEPT ![c] = NoRet]
    /\ log' = [log EXCEPT ![c] = << >>]
    /\ pre' = [pre EXCEPT ![c] = NoPre]
    /\ hist' = [hist EXCEPT !.refused = 1]
    /\ UNCHANGED << mem, actor, variant, client, base_addr, live, inflight >>

NextConsume ==
    \/ \E c \in Ctx, base \in Bases : FromTargetCall(c, base)
    \/ \E c \in Ctx : PublishBytesCall(c, BytePayload(Capacity + 1))
    \/ \E c \in Ctx : PublishDataCall(c, Pack(BytePayload(Capacity + 4)))
    \/ \E c \in Ctx : FromTargetRead(c)
    \/ \E c \in Ctx, n \in {0, 1, Capacity - 3, Capacity + 4} : ConsumeBytesCall(c, n)
    \/ \E c \in Ctx, n \in {0, 1, CapWords, CapWords + 1} : ConsumeDataCall(c, n)
    \/ \E c \in Ctx : DataAvailableCall(c)
    \/ \E c \in Ctx : IdleReadProducerSeq(c)
    \/ \E c \in Ctx : IdleReadConsumerSeq(c)
    \/ \E c \in Ctx : ReadDataSize(c)
    \/ \E c \in Ctx : DataCapacityStep(c)
    \/ \E c \in Ctx : ConsumeBytesWord(c)
    \/ \E c \in Ctx : ConsumeBytesFinalWord(c)
    \/ \E c \in Ctx : ReadBulkWord(c)
    \/ \E c \in Ctx : SetConsumerSeqRead(c)
    \/ \E c \in Ctx : SetConsumerSeqWrite(c)
    \/ \E c \in Ctx : ~Refused(c) /\ Return(c)
    \/ \E c \in Ctx : ReturnRefused(c)

SpecConsume == InitConsume /\ [][NextConsume]_vars

\* what the consume needs of its buffer: bytes, or words for consume_data
Needed(o, d) == IF o.name = "consume_data" THEN div_ceil4(d) ELSE d

\* a consume of a busy channel, called with nothing consumed yet
ConsumeOfBusy(c) ==
    /\ IsConsume(op[c]) /\ pc[c] = "done" /\ actor[c] = "Consumer"
    /\ hist.cons = 0 \/ ret[c].tag = "Ok"

-----------------------------------------------------------------------------
(* Frames of consume and of attach *)

\* C25: a consume writes no word of the medium but consumer_seq; one that
\* returns Ok has written it once, as its last access, with the value of
\* producer_seq it read in the access before; one that returns an error has
\* written nothing.
C25_ReadThenRelease ==
    \A c \in Ctx : IsConsume(op[c]) =>
        /\ \A i \in Writes(c) : log[c][i][2] = base_addr[c] + consumer_seq_offset
        /\ (pc[c] = "done" /\ ret[c].tag = "Ok") =>
            LET n == Len(log[c])
            IN /\ n >= 2
               /\ Writes(c) = {n}
               /\ log[c][n - 1][1] = "r"
               /\ log[c][n - 1][2] = base_addr[c] + producer_seq_offset
               /\ log[c][n][3] = log[c][n - 1][3]
        /\ (pc[c] = "done" /\ ret[c].tag = "Err") => Writes(c) = {}

\* a consume of a two-word payload: four reads, the payload reads, the release
C25_Witness ==
    \E c \in Ctx :
        /\ IsConsume(op[c]) /\ pc[c] = "done" /\ ret[c].tag = "Ok"
        /\ Len(log[c]) = 8
        /\ log[c][8] = << "w", base_addr[c] + consumer_seq_offset, 1 >>


\* C26: from_target writes nothing; at an aligned base its one access is the
\* read of channel_size.  Attaching leaves the region as it was, so on a busy
\* channel the attached handle's data_available reports the payload and its
\* consume receives it.
C26_AttachReadOnly ==
    /\ hist.cons = 0 => mem = ConsumeRegion(DataSizeWord)
    /\ \A c \in Ctx :
        /\ op[c].name = "from_target" =>
            /\ Writes(c) = {}
            /\ Len(log[c]) <= 1
            /\ (pc[c] = "done" /\ base_addr[c] % 4 = 0) =>
                    /\ log[c] = << << "r", base_addr[c] + channel_size_offset, ChannelSize >> >>
                    /\ ret[c].tag = "Ok"
        /\ (op[c].name = "data_available" /\ pc[c] = "done" /\ hist.cons = 0) =>
                ret[c] = Ok(DataSizeWord, TRUE)
        /\ (op[c].name = "consume_bytes" /\ pc[c] = "done" /\ ret[c].tag = "Ok") =>
                SubSeq(buf[c], 1, DataSizeWord) = SubSeq(BytePayload(12), 1, DataSizeWord)

\* a handle attached to the busy channel has consumed the payload found there
C26_Witness ==
    \E c \in Ctx :
        /\ live[c] /\ base_addr[c] = ChannelBase
        /\ op[c].name = "consume_bytes" /\ pc[c] = "done"
        /\ ret[c] = Ok(Capacity, FALSE)
        /\ SubSeq(buf[c], 1, Capacity) = SubSeq(BytePayload(12), 1, Capacity)

-----------------------------------------------------------------------------
(* Partial words and returned lengths *)

\* byte lane k (0 the least significant) of a word
Lane(w, k) == (w \div (256 ^ k)) % 256

\* C27: a publish_bytes of n bytes, n not a multiple of 4, writes one word
\* after the n \div 4 whole ones: its lanes below n % 4 hold the trailing bytes
\* in order, the lanes above are zero.  A consume_bytes that returns n leaves
\* every byte of the caller's buffer past the first n as it was.
C27_PartialWord ==
    \A c \in Ctx :
        /\ (op[c].name = "publish_bytes" /\ pc[c] = "done" /\ ret[c].tag = "Ok"
                /\ Len(op[c].data) % 4 # 0) =>
            LET n == Len(op[c].data)
                a == base_addr[c] + data_offset + 4 * (n \div 4)
            IN /\ Cardinality(WritesTo(c, a)) = 1
               /\ \A i \in WritesTo(c, a) : \A k \in 0 .. 3 :
                    Lane(log[c][i][3], k) = IF k < n % 4 THEN op[c].data[4 * (n \div 4) + k + 1] ELSE 0
        /\ (op[c].name = "consume_bytes" /\ pc[c] = "done" /\ ret[c].tag = "Ok") =>
            \A i \in ret[c].val + 1 .. Len(buf[c]) : buf[c][i] = 255

\* five bytes were published and consumed into a buffer of nine: the final word
\* holds the fifth byte alone and the last four bytes of the buffer are untouched
C27_Witness ==
    \E c \in Ctx :
        /\ op[c].name = "consume_bytes" /\ pc[c] = "done" /\ ret[c] = Ok(5, FALSE)
        /\ inflight = [name |-> "publish_bytes", data |-> BytePayload(5)]
        /\ read_u32(mem, ChannelBase + data_offset + 4) = BytePayload(5)[5]
        /\ buf[c] = BytePayload(5) \o << 255, 255, 255, 255 >>


\* the reads of the payload area in the context's log, in order
PayloadReads(c) ==
    SelectSeq(log[c], LAMBDA e : e[1] = "r" /\ e[2] >= base_addr[c] + data_offset)

\* the data_size the consume read
DataSizeRead(c) ==
    LET i == CHOOSE i \in 1 .. Len(log[c]) : log[c][i][2] = base_addr[c] + data_size_offset
    IN log[c][i][3]

\* C28: a consume_data that finds n payload bytes reads the words 0 .. k-1 of
\* the payload area, k the number of words that hold n bytes (n/4 rounded up),
\* once each and in order, into the first k words of the buffer; it returns k
\* and the words of the buffer past the first k are as they were.  A
\* consume_bytes that finds n payload bytes returns n.
C28_WordsRead ==
    \A c \in Ctx :
        /\ (op[c].name = "consume_data" /\ pc[c] = "done" /\ ret[c].tag = "Ok") =>
            LET n == DataSizeRead(c)
                k == IF n % 4 = 0 THEN n \div 4 ELSE n \div 4 + 1
            IN /\ ret[c].val = k
               /\ Len(PayloadReads(c)) = k
               /\ \A j \in 1 .. k :
                    /\ PayloadReads(c)[j][2] = base_addr[c] + data_offset + 4 * (j - 1)
                    /\ buf[c][j] = PayloadReads(c)[j][3]
               /\ \A j \in k + 1 .. Len(buf[c]) : buf[c][j] = -1
               /\ hist.pubs = hist.cons => n = Len(inflight.data)
        /\ (op[c].name = "consume_bytes" /\ pc[c] = "done" /\ ret[c].tag = "Ok") =>
               /\ ret[c].val = DataSizeRead(c)
               /\ hist.pubs = hist.cons => ret[c].val = Len(inflight.data)

\* five bytes were published; consume_data read two words into a buffer of three
C28_Witness ==
    \E c \in Ctx :
        /\ op[c].name = "consume_data" /\ pc[c] = "done" /\ ret[c] = Ok(2, FALSE)
        /\ inflight = [name |-> "publish_bytes", data |-> BytePayload(5)]
        /\ Len(buf[c]) = 3 /\ buf[c][2] = BytePayload(5)[5] /\ buf[c][3] = -1

-----------------------------------------------------------------------------
(* The flags word *)

\* C29: once a channel has been created its flags word holds Ok (0), whatever
\* it held before, through every publish and consume; no operation writes
\* another value to it.
C29_FlagsOk ==
    /\ hist.created # 0 => read_u32(mem, ChannelBase + flags_offset) = 0
    /\ live["b"] => read_u32(mem, AsyncBase + flags_offset) = 0
    /\ \A c \in Ctx : \A i \in WritesTo(c, base_addr[c] + flags_offset) : log[c][i][3] = 0

\* a publish that filled the capacity has written the flags word
C29_Witness ==
    /\ IsPublish(op["a"]) /\ pc["a"] = "done" /\ ret["a"].tag = "Ok"
    /\ WritesTo("a", ChannelBase + flags_offset) # {}
    /\ read_u32(mem, ChannelBase + flags_offset) = 0
    /\ read_u32(mem, ChannelBase + data_size_offset) = Capacity
    /\ read_u32(mem, ChannelBase + producer_seq_offset) = 1

-----------------------------------------------------------------------------
(* No operation waits *)

\* the next medium access of the operation the context runs
Step(c) ==
    \/ DataCapacityStep(c)
    \/ IdleReadProducerSeq(c)
    \/ IdleReadConsumerSeq(c)
    \/ PublishBytesWord(c)
    \/ PublishBytesFinalWord(c)
    \/ WriteBulkWord(c)
    \/ WriteDataSize(c)
    \/ WriteFlags(c)
    \/ IncProducerSeqRead(c)
    \/ IncProducerSeqWrite(c)
    \/ ReadDataSize(c)
    \/ ConsumeBytesWord(c)
    \/ ConsumeBytesFinalWord(c)
    \/ ReadBulkWord(c)
    \/ SetConsumerSeqRead(c)
    \/ SetConsumerSeqWrite(c)

\* the most medium accesses an operation performs: a publish reads
\* channel_size and the two sequence words, writes its payload words,
\* data_size and flags, reads and writes producer_seq; a consume reads the two
\* sequence words, data_size and channel_size, reads no more payload words
\* than its buffer holds, reads producer_seq and writes consumer_seq
AccessBound(o) ==
    CASE o.name = "publish_data" -> 7 + Len(o.data)
      [] o.name = "publish_bytes" -> 7 + (Len(o.data) + 3) \div 4
      [] o.name = "consume_bytes" -> 6 + (o.len + 3) \div 4
      [] o.name = "consume_data" -> 6 + o.len
      [] o.name = "data_available" -> 3
      [] o.name = "can_publish" -> 2
      [] o.name = "data_capacity" -> 1
      [] OTHER -> 0

\* C30: an operation performs no more medium accesses than its bound, which
\* depends on the payload or buffer length alone, and until it returns its next
\* access is always ready to be made, whatever the peer does; a publish that
\* returns Busy has made its three reads and a consume that returns
\* NoData its two, and neither has written.
C30_NoWaiting ==
    \A c \in Ctx :
        /\ Len(log[c]) <= AccessBound(op[c])
        /\ pc[c] \notin {"rest", "done"} => ENABLED Step(c)
        /\ (pc[c] = "done" /\ ret[c] = Err("Busy")) => Len(log[c]) = 3 /\ Writes(c) = {}
        /\ (pc[c] = "done" /\ ret[c] = Err("NoData")) => Len(log[c]) = 2 /\ Writes(c) = {}

\* a publish begun while the channel was busy has returned Busy, the
\* channel still busy
C30_Witness ==
    \E c \in Ctx :
        /\ IsPublish(op[c]) /\ pc[c] = "done" /\ ret[c] = Err("Busy")
        /\ ~idle(pre[c].p, pre[c].c)
        /\ ~ChannelIdle

-----------------------------------------------------------------------------
(* Mutual exclusion on the payload area *)

\* the publish has found the channel idle and has not yet written producer_seq
Publishing(c) ==
    IsPublish(op[c]) /\ pc[c] \in {"payload_w", "w_size", "w_flags", "inc_r", "inc_w"}

\* the consume has found the channel busy and has not yet written consumer_seq
Consuming(c) ==
    IsConsume(op[c]) /\ pc[c] \in {"r_size", "cap", "payload_r", "set_r", "set_w"}

\* C32: the Producer is never between its idle check and its write of
\* producer_seq while the Consumer is between its busy check and its write of
\* consumer_seq.
C32_MutualExclusion ==
    \A c \in Ctx, d \in Ctx : ~(Publishing(c) /\ Consuming(d))

\* the Producer is writing its payload while the Consumer is inside a consume,
\* at its busy check
C32_Witness ==
    \E c \in Ctx, d \in Ctx :
        /\ Publishing(c) /\ pc[c] = "payload_w" /\ reg[c].idx = 1
        /\ IsConsume(op[d]) /\ pc[d] = "idle_c"

-----------------------------------------------------------------------------
(* Channels whose size is not a multiple of 4 *)

\* sizes that pass check_channel_size, multiples of 4 and not
RegionSizes == {min_channel_size, min_channel_size + 1, ChannelSize - 2, ChannelSize}

\* a created channel of one of the sizes, a handle per role
InitSizes ==
    /\ \E size \in RegionSizes :
            /\ mem = Format(ChannelBase, size, 0, 0, ChannelFlags_Ok, 0)
            /\ hist = [pubs |-> 0, cons |-> 0, fails |-> 0, created |-> size, refused |-> 0]
    /\ base_addr = [c \in Ctx |-> ChannelBase]
    /\ live = [c \in Ctx |-> TRUE]
    /\ Rest

NextSizes ==
    \/ \E n \in 0 .. Capacity : PublishBytesCall("a", BytePayload(n))
    \/ \E k \in 1 .. CapWords : PublishDataCall("a", Pack(BytePayload(4 * k)))
    \/ ConsumeBytesCall("b", Capacity)
    \/ ConsumeDataCall("b", CapWords)
    \/ \E c \in Ctx : DataCapacityStep(c)
    \/ \E c \in Ctx : IdleReadProducerSeq(c)
    \/ \E c \in Ctx : IdleReadConsumerSeq(c)
    \/ \E c \in Ctx : PublishBytesWord(c)
    \/ \E c \in Ctx : PublishBytesFinalWord(c)
    \/ \E c \in Ctx : WriteBulkWord(c)
    \/ \E c \in Ctx : WriteDataSize(c)
    \/ \E c \in Ctx : WriteFlags(c)
    \/ \E c \in Ctx : IncProducerSeqRead(c)
    \/ \E c \in Ctx : IncProducerSeqWrite(c)
    \/ \E c \in Ctx : ReadDataSize(c)
    \/ \E c \in Ctx : ConsumeBytesWord(c)
    \/ \E c \in Ctx : ConsumeBytesFinalWord(c)
    \/ \E c \in Ctx : ReadBulkWord(c)
    \/ \E c \in Ctx : SetConsumerSeqRead(c)
    \/ \E c \in Ctx : SetConsumerSeqWrite(c)
    \/ \E c \in Ctx : Return(c)

SpecSizes == InitSizes /\ [][NextSizes]_vars

\* C33: every word a publish writes to the payload area and every word a
\* consume reads from it lies within [base + 20, base + channel_size).
C33_InsideRegion ==
    \A c \in Ctx : \A i \in 1 .. Len(log[c]) :
        (/\ IsPublish(op[c]) \/ IsConsume(op[c])
         /\ log[c][i][2] >= base_addr[c] + data_offset)
        => log[c][i][2] + 4 <= base_addr[c] + hist.created

-----------------------------------------------------------------------------
(* Re-creating a channel under an attached peer *)

\* C34: while a channel that holds no unconsumed payload is created again and
\* nothing is published, the sequence words stay equal at every step of the
\* create, and the attached Consumer handle is never told of a payload: its
\* data_available returns None and its consume never returns Ok.
C34_NoPhantom ==
    /\ ChannelIdle
    /\ hist.cons = 0
    /\ \A c \in Ctx :
        (op[c].name = "data_available" /\ pc[c] = "done" /\ ret[c].tag = "Ok") => ~ret[c].flag

-----------------------------------------------------------------------------
(* Precedence of the checks *)

\* C36: a publish on a Consumer handle returns Err(InvalidOperation) before any
\* access, whatever the payload and the channel state; a publish on a Producer
\* handle of a payload above the capacity returns Err(PayloadTooLarge), on a
\* busy channel too; a consume of an idle channel returns Err(NoData) without
\* reading data_size; a consume that finds data_size above both its buffer and
\* the capacity returns Err(BufferTooSmall).
C36_Precedence ==
    \A c \in Ctx : pc[c] = "done" =>
        /\ (IsPublish(op[c]) /\ actor[c] = "Consumer") =>
                ret[c] = Err("InvalidOperation") /\ log[c] = << >>
        /\ (IsPublish(op[c]) /\ actor[c] = "Producer" /\ ByteLen(op[c]) > Capacity) =>
                ret[c] = Err("PayloadTooLarge") /\ Len(log[c]) = 1
        /\ (IsConsume(op[c]) /\ actor[c] = "Consumer" /\ pre[c].p = pre[c].c) =>
                ret[c] = Err("NoData") /\ Len(log[c]) = 2
        /\ (IsConsume(op[c]) /\ actor[c] = "Consumer" /\ hist.cons = 0
                /\ DataSizeWord > Capacity /\ Needed(op[c], DataSizeWord) > op[c].len) =>
                ret[c] = Err("BufferTooSmall")

\* on the busy channel an oversize publish was refused for its size
C36_Witness ==
    \E c \in Ctx :
        /\ pc[c] = "done" /\ op[c].name = "publish_bytes" /\ actor[c] = "Producer"
        /\ ~ChannelIdle /\ pre[c].p # pre[c].c
        /\ ret[c] = Err("PayloadTooLarge")

-----------------------------------------------------------------------------
(* The usize arguments on a 64-bit build *)

\* a usize of a 64-bit build: hi * 2^32 + lo, lo a 32-bit word
Usize(hi, lo) == [hi |-> hi, lo |-> lo]

\* size as u32 keeps the low 32 bits
as_u32(size) == size.lo

\* check_channel_size on the 64-bit value
check_channel_size_usize(size) ==
    IF size.hi = 0 THEN check_channel_size(size.lo) ELSE "Ok"

\* Channel::new with a 64-bit size; write_channel_size stores size as u32
NewCallUsize(c, base, size) ==
    /\ hist.created = 0
    /\ \A d \in Ctx : op[d].name # "new"
    /\ Construct(c, [name |-> "new", data |-> << size.hi >>, len |-> as_u32(size)], base,
                 IF check_base_addr(base) # "Ok" THEN check_base_addr(base)
                 ELSE check_channel_size_usize(size))

UsizeSizes ==
    { Usize(0, min_channel_size - 1), Usize(0, min_channel_size), Usize(0, ChannelSize),
      Usize(1, 0), Usize(1, ChannelSize) }

\* an unformatted region, no handle yet
InitUsize ==
    /\ mem = Zeroes
    /\ base_addr = [c \in Ctx |-> 0]
    /\ live = [c \in Ctx |-> FALSE]
    /\ hist = [pubs |-> 0, cons |-> 0, fails |-> 0, created |-> 0, refused |-> 0]
    /\ Rest

NextUsize ==
    \/ \E size \in UsizeSizes : NewCallUsize("a", ChannelBase, size)
    \/ NewWrite("a")
    \/ FromTargetCall("b", ChannelBase)
    \/ FromTargetRead("b")
    \/ \E n \in {0, 5, Capacity} : PublishBytesCall("a", BytePayload(n))
    \/ ConsumeBytesCall("b", Capacity)
    \/ \E c \in Ctx : DataCapacityStep(c)
    \/ \E c \in Ctx : IdleReadProducerSeq(c)
    \/ \E c \in Ctx : IdleReadConsumerSeq(c)
    \/ \E c \in Ctx : PublishBytesWord(c)
    \/ \E c \in Ctx : PublishBytesFinalWord(c)
    \/ \E c \in Ctx : WriteDataSize(c)
    \/ \E c \in Ctx : WriteFlags(c)
    \/ \E c \in Ctx : IncProducerSeqRead(c)
    \/ \E c \in Ctx : IncProducerSeqWrite(c)
    \/ \E c \in Ctx : ReadDataSize(c)
    \/ \E c \in Ctx : ConsumeBytesWord(c)
    \/ \E c \in Ctx : ConsumeBytesFinalWord(c)
    \/ \E c \in Ctx : SetConsumerSeqRead(c)
    \/ \E c \in Ctx : SetConsumerSeqWrite(c)
    \/ \E c \in Ctx : Return(c)

SpecUsize == InitUsize /\ [][NextUsize]_vars

\* the data_size a publish wrote is the payload's byte length
StoredDataSize ==
    \A c \in Ctx : (IsPublish(op[c]) /\ pc[c] = "done" /\ ret[c].tag = "Ok") =>
        \E i \in WritesTo(c, base_addr[c] + data_size_offset) : log[c][i][3] = ByteLen(op[c])

\* C37: whenever new(size) returns Ok the channel_size word of the medium
\* equals size, so new never returns Ok for a size above 32 bits; and whenever
\* a publish returns Ok the data_size it stored equals the payload's byte length.
C37_NoTruncation ==
    /\ \A c \in Ctx : (op[c].name = "new" /\ pc[c] = "done" /\ ret[c].tag = "Ok") =>
            /\ op[c].data[1] = 0
            /\ read_u32(mem, base_addr[c] + channel_size_offset) = op[c].len
    /\ StoredDataSize

-----------------------------------------------------------------------------
(* The RPC client: AsyncRpcClient::request against a target *)

\* the host runs the client; the target serves the two channels
Host == "a"
Target == "b"

\* cmd_ch_ptr and rsp_ch_ptr of the config
CmdBase == ChannelBase
RspBase == AsyncBase

\* the response buffer is as large as the whole payload area
response_buf_len_capacity(size) == Capacity

\* vec![0u8; response_size]
response_buf_len(size) == size

ZeroBytes(n) == [i \in 1 .. n |-> 0]

\* cmd_channel() / rsp_channel(): new for a Direct config, from_target otherwise
OpenOp(config) ==
    IF config = "Direct" THEN [name |-> "new", data |-> << >>, len |-> ChannelSize]
    ELSE [name |-> "from_target", data |-> << >>, len |-> 0]

OpenCheck(config, base) ==
    IF check_base_addr(base) # "Ok" THEN check_base_addr(base)
    ELSE IF config = "Direct" THEN check_channel_size(ChannelSize)
    ELSE "Ok"

\* the call before has returned and the next one is made, on the handle
\* (role, base); l tells whether the handle exists before the call
Begin(c, role, base, l, o, b, check) ==
    /\ actor' = [actor EXCEPT ![c] = role]
    /\ base_addr' = [base_addr EXCEPT ![c] = base]
    /\ live' = [live EXCEPT ![c] = l]
    /\ op' = [op EXCEPT ![c] = o]
    /\ buf' = [buf EXCEPT ![c] = b]
    /\ reg' = [reg EXCEPT ![c] = NoReg]
    /\ log' = [log EXCEPT ![c] = << >>]
    /\ pre' = [pre EXCEPT ![c] = Header(mem, base)]
    /\ pc' = [pc EXCEPT ![c] = IF check # "Ok" THEN "done" ELSE First(c, o)]
    /\ ret' = [ret EXCEPT ![c] = IF check # "Ok" THEN Err(check) ELSE NoRet]
    /\ UNCHANGED << mem, variant, inflight, hist >>

LastCall == IF client.calls = << >> THEN "none" ELSE client.calls[Len(client.calls)]

Returned(c, name) == pc[c] = "done" /\ LastCall = name /\ ret[c].tag = "Ok"

\* request(command) is called: self.cmd_channel()
RequestCall(command) ==
    /\ pc[Host] = "rest"
    /\ client.calls = << >>
    /\ Begin(Host, "Producer", CmdBase, FALSE, OpenOp(client.config), << >>,
             OpenCheck(client.config, CmdBase))
    /\ client' = [client EXCEPT !.command = command, !.calls = << "cmd_channel" >>]

\* cmd_ch.publish_bytes(command)
RequestPublish ==
    /\ Returned(Host, "cmd_channel")
    /\ Begin(Host, "Producer", CmdBase, TRUE,
             [name |-> "publish_bytes", data |-> client.command, len |-> 0], << >>,
             producer_only("Producer"))
    /\ client' = [client EXCEPT !.calls = Append(@, "publish_bytes")]

\* self.rsp_channel()
RequestOpenRsp ==
    /\ Returned(Host, "publish_bytes")
    /\ Begin(Host, "Consumer", RspBase, FALSE, OpenOp(client.config), << >>,
             OpenCheck(client.config, RspBase))
    /\ client' = [client EXCEPT !.calls = Append(@, "rsp_channel")]

\* rsp_ch.data_available(), first and again after each None and delay
RequestPoll ==
    /\ \/ Returned(Host, "rsp_channel")
       \/ Returned(Host, "data_available") /\ ~ret[Host].flag
    /\ Begin(Host, "Consumer", RspBase, TRUE,
             [name |-> "data_available", data |-> << >>, len |-> 0], << >>, "Ok")
    /\ client' = [client EXCEPT !.calls =
                        IF LastCall = "data_available" THEN @ ELSE Append(@, "data_available")]

\* Some(size) breaks the loop: rsp_ch.consume_bytes(&mut response_buf)
RequestConsume ==
    /\ Returned(Host, "data_available") /\ ret[Host].flag
    /\ LET size == ret[Host].val
       IN /\ Begin(Host, "Consumer", RspBase, TRUE,
                   [name |-> "consume_bytes", data |-> << >>, len |-> response_buf_len(size)],
                   ZeroBytes(response_buf_len(size)), consumer_only("Consumer"))
          /\ client' = [client EXCEPT !.size = size, !.calls = Append(@, "consume_bytes")]

Truncated(b, n) == IF n < Len(b) THEN SubSeq(b, 1, n) ELSE b

\* a call has returned and request returns: Ok(response_buf) after the consume,
\* the error of the call that failed otherwise
RequestReturn ==
    /\ pc[Host] = "done"
    /\ client.result = NoRet
    /\ \/ Returned(Host, "consume_bytes")
          /\ client' = [client EXCEPT !.result =
                    [tag |-> "Ok", err |-> "", val |-> Truncated(buf[Host], ret[Host].val),
                     flag |-> FALSE]]
       \/ ret[Host].tag = "Err"
          /\ client' = [client EXCEPT !.result = ret[Host]]
    /\ pc' = [pc EXCEPT ![Host] = "rest"]
    /\ live' = [live EXCEPT ![Host] = FALSE]
    /\ UNCHANGED << mem, actor, variant, base_addr, op, reg, buf, ret, log, pre, inflight, hist >>

\* the target looks for a command
TargetPoll ==
    /\ base_addr[Target] = CmdBase
    /\ ConsumeBytesCall(Target, Capacity)

\* no command yet: the target looks again
TargetRetry ==
    /\ IsConsume(op[Target]) /\ ret[Target].tag = "Err"
    /\ Return(Target)

\* the command is consumed: the target publishes its one response
TargetRespond(response) ==
    /\ pc[Target] = "done" /\ IsConsume(op[Target]) /\ ret[Target].tag = "Ok"
    /\ Begin(Target, "Producer", RspBase, TRUE,
             [name |-> "publish_bytes", data |-> response, len |-> 0], << >>,
             producer_only("Producer"))
    /\ UNCHANGED client

\* a medium access of the operation the context is in
Run(c) ==
    \/ NewWrite(c)
    \/ FromTargetRead(c)
    \/ DataCapacityStep(c)
    \/ IdleReadProducerSeq(c)
    \/ IdleReadConsumerSeq(c)
    \/ PublishBytesWord(c)
    \/ PublishBytesFinalWord(c)
    \/ WriteDataSize(c)
    \/ WriteFlags(c)
    \/ IncProducerSeqRead(c)
    \/ IncProducerSeqWrite(c)
    \/ ReadDataSize(c)
    \/ ConsumeBytesWord(c)
    \/ ConsumeBytesFinalWord(c)
    \/ SetConsumerSeqRead(c)
    \/ SetConsumerSeqWrite(c)

HostNext ==
    \/ \E n \in {1, 5} : RequestCall(BytePayload(n))
    \/ RequestPublish
    \/ RequestOpenRsp
    \/ RequestPoll
    \/ RequestConsume
    \/ RequestReturn
    \/ Run(Host)

TargetNext ==
    \/ TargetPoll
    \/ TargetRetry
    \/ \E n \in {3, Capacity} : TargetRespond(BytePayload(n))
    \/ Run(Target)

\* both regions formatted by the target, which holds a Consumer handle on the
\* command channel; the command channel idle, or busy with an earlier command
InitRpc ==
    /\ \E p \in {0, 1} :
            mem = write_u32(Format(CmdBase, ChannelSize, p, 0, ChannelFlags_Ok, p),
                            RspBase + channel_size_offset, ChannelSize)
    /\ \E config \in {"Direct", "FromTarget"} : client = [NoClient EXCEPT !.config = config]
    /\ actor = [c \in Ctx |-> IF c = Host THEN "Producer" ELSE "Consumer"]
    /\ variant = [c \in Ctx |-> IF c = Host THEN "AsyncChannel" ELSE "Channel"]
    /\ base_addr = [c \in Ctx |-> CmdBase]
    /\ live = [c \in Ctx |-> c = Target]
    /\ hist = [pubs |-> 0, cons |-> 0, fails |-> 0, created |-> ChannelSize, refused |-> 0]
    /\ pc = [c \in Ctx |-> "rest"]
    /\ op = [c \in Ctx |-> NoOp]
    /\ reg = [c \in Ctx |-> NoReg]
    /\ buf = [c \in Ctx |-> << >>]
    /\ ret = [c \in Ctx |-> NoRet]
    /\ log = [c \in Ctx |-> << >>]
    /\ pre = [c \in Ctx |-> NoPre]
    /\ inflight = [name |-> "none", data |-> << >>]

NextRpc ==
    \/ \E n \in {1, 5} : RequestCall(BytePayload(n))
    \/ RequestPublish
    \/ RequestOpenRsp
    \/ RequestPoll
    \/ RequestConsume
    \/ RequestReturn
    \/ TargetPoll
    \/ TargetRetry
    \/ \E n \in {3, Capacity} : TargetRespond(BytePayload(n))
    \/ \E c \in Ctx : NewWrite(c)
    \/ \E c \in Ctx : FromTargetRead(c)
    \/ \E c \in Ctx : DataCapacityStep(c)
    \/ \E c \in Ctx : IdleReadProducerSeq(c)
    \/ \E c \in Ctx : IdleReadConsumerSeq(c)
    \/ \E c \in Ctx : PublishBytesWord(c)
    \/ \E c \in Ctx : PublishBytesFinalWord(c)
    \/ \E c \in Ctx : WriteDataSize(c)
    \/ \E c \in Ctx : WriteFlags(c)
    \/ \E c \in Ctx : IncProducerSeqRead(c)
    \/ \E c \in Ctx : IncProducerSeqWrite(c)
    \/ \E c \in Ctx : ReadDataSize(c)
    \/ \E c \in Ctx : ConsumeBytesWord(c)
    \/ \E c \in Ctx : ConsumeBytesFinalWord(c)
    \/ \E c \in Ctx : SetConsumerSeqRead(c)
    \/ \E c \in Ctx : SetConsumerSeqWrite(c)

\* the executor keeps running the request and the target keeps running
SpecRpc == InitRpc /\ [][NextRpc]_vars /\ WF_vars(HostNext) /\ WF_vars(TargetNext)


request_calls == << "cmd_channel", "publish_bytes", "rsp_channel", "data_available", "consume_bytes" >>

IsPrefix(s, t) == Len(s) <= Len(t) /\ s = SubSeq(t, 1, Len(s))

OnCommandChannel == LastCall \in {"cmd_channel", "publish_bytes"}

\* C31: request makes its calls in order: the command channel is opened as
\* Producer and publish_bytes(command) has returned Ok when the response
\* channel is opened as Consumer; consume_bytes is called only when
\* data_available has returned Some(size), with a buffer of exactly size bytes;
\* and an error of the open or the publish on the command channel is what
\* request returns, with no access to the response channel.
C31_RequestOrder ==
    [][/\ IsPrefix(client'.calls, request_calls)
       /\ (client'.calls # << >> /\ client'.result = NoRet) =>
                IF LastCall' \in {"cmd_channel", "publish_bytes"}
                THEN actor'[Host] = "Producer" /\ base_addr'[Host] = CmdBase
                ELSE actor'[Host] = "Consumer" /\ base_addr'[Host] = RspBase
       /\ (LastCall' = "publish_bytes" /\ LastCall # "publish_bytes") =>
                /\ pc[Host] = "done" /\ op[Host].name \in {"new", "from_target"}
                /\ ret[Host].tag = "Ok" /\ op'[Host].data = client.command
       /\ (LastCall' = "rsp_channel" /\ LastCall # "rsp_channel") =>
                /\ pc[Host] = "done" /\ op[Host].name = "publish_bytes"
                /\ base_addr[Host] = CmdBase /\ ret[Host].tag = "Ok"
       /\ (LastCall' = "consume_bytes" /\ LastCall # "consume_bytes") =>
                /\ pc[Host] = "done" /\ op[Host].name = "data_available"
                /\ ret[Host].tag = "Ok" /\ ret[Host].flag
                /\ op'[Host].len = ret[Host].val
                /\ buf'[Host] = ZeroBytes(ret[Host].val)
       /\ (pc[Host] = "done" /\ ret[Host].tag = "Err" /\ client' # client) =>
                client' = [client EXCEPT !.result = ret[Host]]
       /\ (OnCommandChannel' /\ client'.result.tag = "Err") =>
                \A i \in 1 .. Len(log'[Host]) :
                    log'[Host][i][2] >= CmdBase /\ log'[Host][i][2] < CmdBase + ChannelSize
      ]_vars

\* the earlier command was still unconsumed: the publish was refused as Busy and
\* request returned that
C31_Witness ==
    /\ client.result = Err("Busy")
    /\ LastCall = "publish_bytes"
    /\ op[Host].name = "publish_bytes"

\* request has returned the bytes of the response the target published
Delivered ==
    /\ client.result.tag = "Ok"
    /\ IsPublish(op[Target]) /\ pc[Target] = "done" /\ ret[Target].tag = "Ok"
    /\ client.result.val = op[Target].data

\* the target's publish of the response has returned Ok
TargetPublished == IsPublish(op[Target]) /\ pc[Target] = "done" /\ ret[Target].tag = "Ok"

\* C35: with either config, when the command channel starts idle, the target
\* consumes the command and publishes one response, and both sides keep
\* running, request eventually returns Ok with exactly the bytes of that
\* response: a response published before the host has opened the response
\* channel is not lost.
C35_ResponseDelivered ==
    Header(mem, CmdBase).p = Header(mem, CmdBase).c => (TargetPublished ~> Delivered)

====
